---- MODULE Spec2Model ----
(***************************************************************************)
(* Model of pkgcheck's profile addon (src/src/pkgcheck/addons.py):         *)
(*   - ProfileData.identify_use and the flag rule-sets it reads,           *)
(*   - the per-profile compilation step of ProfileAddon.update_cache,      *)
(*   - the profile fingerprint (_profile_files / profile_data),            *)
(*   - the on-disk profiles cache handled by ProfileAddon.update_cache.    *)
(*                                                                         *)
(* Flag rule-sets are pkgcore ChunkedDataDict objects.  They are modelled  *)
(* as the ordered sequence of chunks (key, neg, pos) that pull_data        *)
(* applies to a package: every chunk whose key matches the package removes *)
(* its neg flags and then adds its pos flags, in insertion order.          *)
(***************************************************************************)
EXTENDS Integers, Sequences, FiniteSets, TLC

\* ------------------------------------------------------------------ bounds
\* longest rule list of a profile's use.mask / use.force
MaxRules == 1
\* number of packages the checks add to the lookup memos of the ProfileData
MaxAdds == 3
\* number of comma separated entries of a --profiles value
MaxTokens == 2
\* number of init_addon calls sharing one addons_map
MaxCalls == 2
\* number of nodes of a dependency tree given to use_validate
MaxNodes == 4
\* number of master repositories in front of the target repo in trees
MaxMasters == 2
\* largest st_mtime of a file
MaxMtime == 1

\* ------------------------------------------------------------ flag universe
KnownArches == {"amd64", "x86", "arm64"}
UseFlags == {"foo", "bar", "baz"}
Flags == UseFlags \cup KnownArches
\* options.arches
SelectedArches == {"amd64", "x86"}
\* package keys
Packages == {"P", "Q"}
\* restriction key of a bare global chunk (packages.AlwaysTrue)
AlwaysTrue == "*"

\* ---------------------------------------------------------------- rule-sets
\* misc.chunked_data(key, neg, pos)
mk_item(key, neg, pos) == [key |-> key, neg |-> neg, pos |-> pos]

\* cinst.key.match(pkg)
ChunkMatches(c, pkg) == c.key = AlwaysTrue \/ c.key = pkg

\* pull_data(pkg): the matching chunks applied in order to an empty set
RECURSIVE pull_from(_, _, _)
pull_from(rs, pkg, acc) ==
    IF rs = <<>> THEN acc
    ELSE LET c == Head(rs) IN
         pull_from(Tail(rs), pkg,
                   IF ChunkMatches(c, pkg) THEN (acc \ c.neg) \cup c.pos ELSE acc)

pull_data(rs, pkg) == pull_from(rs, pkg, {})

\* add_bare_global that replaces the rules already there instead of extending them
add_bare_global_replacing(rs, disabled, enabled) ==
    IF disabled = {} /\ enabled = {} THEN rs
    ELSE <<mk_item(AlwaysTrue, disabled, enabled)>>

\* add_bare_global that puts the new chunk in front of the rules already there
add_bare_global_in_front(rs, disabled, enabled) ==
    IF disabled = {} /\ enabled = {} THEN rs
    ELSE <<mk_item(AlwaysTrue, disabled, enabled)>> \o rs

\* add_bare_global(disabled, enabled): nothing when both are empty, otherwise
\* a new AlwaysTrue chunk behind every chunk already there
add_bare_global(rs, disabled, enabled) ==
    IF disabled = {} /\ enabled = {} THEN rs
    ELSE Append(rs, mk_item(AlwaysTrue, disabled, enabled))

\* optimize(): the global chunks collapse into one chunk holding, per flag, the
\* setting of the last global chunk that names it; a keyed chunk keeps the flags
\* that no later global chunk names.  The resolved flags of a package stay.
RECURSIVE LockedBy(_)
LockedBy(rs) ==
    IF rs = <<>> THEN [neg |-> {}, pos |-> {}]
    ELSE LET c == Head(rs)
             later == LockedBy(Tail(rs))
             seen == later.neg \cup later.pos
         IN IF c.key = AlwaysTrue
            THEN [neg |-> later.neg \cup (c.neg \ (seen \cup c.pos)),
                  pos |-> later.pos \cup (c.pos \ seen)]
            ELSE later

RECURSIVE KeyedChunks(_)
KeyedChunks(rs) ==
    IF rs = <<>> THEN <<>>
    ELSE LET c == Head(rs)
             later == LockedBy(Tail(rs))
             seen == later.neg \cup later.pos
             rest == KeyedChunks(Tail(rs))
         IN IF c.key = AlwaysTrue \/ (c.neg \ seen = {} /\ c.pos \ seen = {})
            THEN rest
            ELSE <<mk_item(c.key, c.neg \ seen, c.pos \ seen)>> \o rest

optimize(rs) ==
    LET locked == LockedBy(rs) IN
    (IF locked.neg = {} /\ locked.pos = {} THEN <<>>
     ELSE <<mk_item(AlwaysTrue, locked.neg, locked.pos)>>) \o KeyedChunks(rs)

\* ------------------------------------------------------- the profile source
\* The chunks a profile's use.mask / use.force (and their package.* forms) hold.
RuleChunks ==
    { mk_item(AlwaysTrue, {}, {"foo"}),
      mk_item(AlwaysTrue, {}, {"bar"}),
      mk_item(AlwaysTrue, {}, {"x86"}),
      mk_item("P", {"bar"}, {"baz"}) }

\* The chunks of use.stable.mask / use.stable.force, which the profile source
\* appends to the unstable rule-set to get the stable one; "-flag" negates.
StableChunks ==
    { mk_item(AlwaysTrue, {"bar"}, {}),
      mk_item(AlwaysTrue, {}, {"foo"}),
      mk_item("P", {"foo"}, {"bar"}),
      mk_item("P", {"amd64"}, {}) }

RECURSIVE RuleSeqs(_)
RuleSeqs(n) ==
    IF n = 0 THEN {<<>>}
    ELSE LET shorter == RuleSeqs(n - 1) IN
         shorter \cup {Append(rs, c) : rs \in shorter, c \in RuleChunks}

StableExtras == {<<>>} \cup {<<c>> : c \in StableChunks}

\* profile_obj as update_cache reads it: the four flag rule-sets, and whether
\* reading it raises ProfileError (unsupported EAPI, broken USE expansion)
ProfileObjs ==
    { [masked_use |-> m, forced_use |-> f,
       stable_masked_use |-> m \o sm, stable_forced_use |-> f \o sf,
       masks |-> {}, unmasks |-> {},
       raises |-> FALSE] :
      m \in RuleSeqs(MaxRules), f \in RuleSeqs(MaxRules),
      sm \in StableExtras, sf \in StableExtras }

\* default_masked_use of update_cache: every official arch but this one
default_masked_use(arch) == {x \in KnownArches : x # arch}

\* compile_profile without the default_masked_use rule on the stable mask set
compile_profile_stable_unmasked(profile_obj, arch) ==
    IF profile_obj.raises THEN <<>>
    ELSE << [masks |-> profile_obj.masks,
             unmasks |-> profile_obj.unmasks,
             immutable_flags |->
                optimize(add_bare_global(profile_obj.masked_use, {},
                                         default_masked_use(arch))),
             stable_immutable_flags |-> optimize(profile_obj.stable_masked_use),
             enabled_flags |->
                optimize(add_bare_global(profile_obj.forced_use, {}, {arch})),
             stable_enabled_flags |->
                optimize(add_bare_global(profile_obj.stable_forced_use, {},
                                         {arch}))] >>

\* The compilation of one profile in update_cache: <<record>>, or <<>> when the
\* profile raises ProfileError.  clone(unfreeze=True) and freeze() only manage
\* mutability and have no counterpart on values.
compile_profile(profile_obj, arch) ==
    IF profile_obj.raises THEN <<>>
    ELSE << [masks |-> profile_obj.masks,
             unmasks |-> profile_obj.unmasks,
             immutable_flags |->
                optimize(add_bare_global(profile_obj.masked_use, {},
                                         default_masked_use(arch))),
             stable_immutable_flags |->
                optimize(add_bare_global(profile_obj.stable_masked_use, {},
                                         default_masked_use(arch))),
             enabled_flags |->
                optimize(add_bare_global(profile_obj.forced_use, {}, {arch})),
             stable_enabled_flags |->
                optimize(add_bare_global(profile_obj.stable_forced_use, {},
                                         {arch}))] >>

\* stable_key, unstable_key
unstable_key(arch) == "~" \o arch

\* generate_filter that drops the unmasks
generate_filter_without_unmasks(masks, unmasks) ==
    [masking |-> masks, unmasking |-> {}]

\* domain.generate_filter(masks, unmasks): the restriction "not masked, or
\* unmasked"; with no mask at all it is the empty AndRestriction, and with no
\* unmask the plain negated mask
generate_filter(masks, unmasks) == [masking |-> masks, unmasking |-> unmasks]

\* match of the restriction generate_filter builds; masks and unmasks are atoms
\* matching a package by name
filter_match(vfilter, pkg) ==
    IF vfilter.masking = {} THEN TRUE
    ELSE IF vfilter.unmasking # {}
         THEN pkg.name \notin vfilter.masking \/ pkg.name \in vfilter.unmasking
         ELSE pkg.name \notin vfilter.masking

\* PackageRestriction("keywords", ContainmentMatch2(vals)): some keyword of the
\* package is one of vals
ContainmentMatch2(vals, keywords) ==
    \E n \in DOMAIN keywords : keywords[n] \in vals

\* unstable_r that accepts the unstable keyword only
unstable_r_tilde_only(stable_key) == {unstable_key(stable_key)}

\* stable_r and unstable_r: the values of the two keyword restrictions
stable_r(stable_key) == {stable_key}
unstable_r(stable_key) == {stable_key, unstable_key(stable_key)}

\* The two ProfileData update_cache appends for one profile: the stable one
\* reads the stable_* rule-sets, the unstable one the plain ones; both filters
\* are AndRestriction(vfilter, keyword restriction) over the same vfilter, built
\* from the pkg_masks of the repo of the pass and the profile's masks, unmasks.
StableProfileData(name, arch, c, repo_masks) ==
    [name |-> name, key |-> arch,
     masked_use |-> c.stable_immutable_flags,
     forced_use |-> c.stable_enabled_flags,
     vfilter |-> generate_filter(repo_masks \cup c.masks, c.unmasks),
     keywords |-> stable_r(arch)]

UnstableProfileData(name, arch, c, repo_masks) ==
    [name |-> name, key |-> unstable_key(arch),
     masked_use |-> c.immutable_flags,
     forced_use |-> c.enabled_flags,
     vfilter |-> generate_filter(repo_masks \cup c.masks, c.unmasks),
     keywords |-> unstable_r(arch)]

\* ProfileData.visible = vfilter.match of the AndRestriction
visible(pd, pkg) ==
    filter_match(pd.vfilter, pkg) /\ ContainmentMatch2(pd.keywords, pkg.keywords)

\* identify_use that leaves the masked flags in enabled
identify_use_mask_kept(pd, pkg, known_flags) ==
    LET enabled == known_flags \cap pull_data(pd.forced_use, pkg)
        immutable == enabled \cup
                     {x \in pull_data(pd.masked_use, pkg) : x \in known_flags}
    IN [immutable |-> immutable, enabled |-> enabled]

\* identify_use that adds the masked flags to immutable without filtering them
identify_use_unfiltered(pd, pkg, known_flags) ==
    LET enabled == known_flags \cap pull_data(pd.forced_use, pkg)
        immutable == enabled \cup pull_data(pd.masked_use, pkg)
        force_disabled == pull_data(pd.masked_use, pkg)
    IN [immutable |-> immutable,
        enabled |-> IF force_disabled # {} THEN enabled \ force_disabled
                    ELSE enabled]

\* identify_use that computes immutable from enabled after the masks are removed
identify_use_late_immutable(pd, pkg, known_flags) ==
    LET force_disabled == pull_data(pd.masked_use, pkg)
        enabled == (known_flags \cap pull_data(pd.forced_use, pkg)) \ force_disabled
        immutable == enabled \cup
                     {x \in force_disabled \ pull_data(pd.forced_use, pkg) :
                        x \in known_flags}
    IN [immutable |-> immutable, enabled |-> enabled]

\* ProfileData.identify_use(pkg, known_flags) -> (immutable, enabled)
identify_use(pd, pkg, known_flags) ==
    LET enabled == known_flags \cap pull_data(pd.forced_use, pkg)
        immutable == enabled \cup
                     {x \in pull_data(pd.masked_use, pkg) : x \in known_flags}
        force_disabled == pull_data(pd.masked_use, pkg)
    IN [immutable |-> immutable,
        enabled |-> IF force_disabled # {} THEN enabled \ force_disabled
                    ELSE enabled]

\* known_flags of a call: any set of USE flags, alone or with every arch flag
KnownFlagSets ==
    {k \cup a : k \in SUBSET UseFlags, a \in {{}, KnownArches}}

\* ------------------------------------------------ repositories and profiles
\* target_repo and its masters; repo.config.profiles_base names a repo's cache
\* namespace, so a repo stands for its profiles base
TargetRepo == "overlay"
MasterRepos == {"master" \o ToString(i) : i \in 1..MaxMasters}
Repos == MasterRepos \cup {TargetRepo}

\* repo.pkg_masks: the target repo masks Q, the first master nothing and any
\* further master P
pkg_masks(repo) ==
    CASE repo = TargetRepo -> {"Q"}
      [] repo = "master1" -> {}
      [] OTHER -> {"P"}

\* target_repo.trees: the masters, then the target repo itself
Trees(n) == [i \in 1..n |-> "master" \o ToString(i)] \o <<TargetRepo>>

\* options.profiles, as sorted() orders them; all are profiles of the target
\* repo, so profile.base is the target repo's profiles base
Profiles == {"p1", "p2", "p3"}
SortedProfiles == <<"p1", "p2", "p3">>
SortedArches == <<"amd64", "x86">>
ProfileArch(p) == IF p = "p1" THEN "amd64" ELSE "x86"
ProfileBase(p) == TargetRepo

\* profile.stack: p1 and p2 inherit the directory node n0; p3 is a single
\* directory of its own
Nodes == {"n0", "n1", "n2", "n3"}
ProfileStack(p) ==
    CASE p = "p1" -> <<"n0", "n1">>
      [] p = "p2" -> <<"n0", "n2">>
      [] OTHER -> <<"n3">>

\* self.arch_profiles[arch]
arch_profiles(a) == SelectSeq(SortedProfiles, LAMBDA p : ProfileArch(p) = a)

\* os.listdir(node.path): n0, n1 and n2 hold one regular file each; n0 also
\* holds a sub-directory and n1 a symlink; n3 holds a sub-directory only
RegularFiles == {"n0/a", "n1/b", "n2/c"}
ListDir(node) ==
    CASE node = "n0" -> <<"n0/a", "n0/sub">>
      [] node = "n1" -> <<"n1/link", "n1/b">>
      [] node = "n2" -> <<"n2/c">>
      [] OTHER -> <<"n3/dir">>
NodeOf(f) ==
    CASE f = "n0/a" -> "n0"
      [] f = "n1/b" -> "n1"
      [] OTHER -> "n2"

\* stat.S_ISREG(os.lstat(p).st_mode)
S_ISREG(e) == e \in RegularFiles

\* os.lstat(p).st_mtime: the files' mtimes are state; the sub-directory and the
\* symlink are newer than any regular file
st_mtime(fsv, e) == IF S_ISREG(e) THEN fsv[e] ELSE MaxMtime + 1

\* The profile source as the profile loader reads it from the profile's files
\* in version "a" or "b", which differ in masked_use (and "a" unmasks package Q
\* where "b" masks package P), in a version "c" with the flag rules of "a" and
\* no package mask or unmask, or in a version "bad" whose compilation raises
\* ProfileError
SourceVersions(p) ==
    CASE p = "p1" -> {"a", "bad"}
      [] p = "p2" -> {"a", "b"}
      [] OTHER -> {"c"}
SourceMaps == {m \in [Profiles -> {"a", "b", "c", "bad"}] :
                 \A p \in Profiles : m[p] \in SourceVersions(p)}
ProfileSource(v) ==
    [masked_use |->
        IF v \in {"a", "c"} THEN <<mk_item(AlwaysTrue, {}, {"bar"})>> ELSE <<>>,
     forced_use |-> <<mk_item(AlwaysTrue, {}, {"foo"})>>,
     stable_masked_use |->
        IF v \in {"a", "c"} THEN <<mk_item(AlwaysTrue, {}, {"bar"})>> ELSE <<>>,
     stable_forced_use |-> <<mk_item(AlwaysTrue, {}, {"foo"})>>,
     masks |-> IF v = "b" THEN {"P"} ELSE {},
     unmasks |-> IF v = "a" THEN {"Q"} ELSE {},
     raises |-> v = "bad"]

\* -------------------------------------------------------------- fingerprint
\* the file list kept as a list, duplicates and all
frozenset_as_list(list) == list

\* frozenset(profile_files)
frozenset(list) == {list[i] : i \in DOMAIN list}

\* the listing loop without the S_ISREG test: every directory entry counts
RECURSIVE ScanDir_every_entry(_, _, _, _)
ScanDir_every_entry(fsv, entries, mtime, files) ==
    IF entries = <<>> THEN <<mtime, files>>
    ELSE LET e == Head(entries) IN
         ScanDir_every_entry(fsv, Tail(entries),
                             IF st_mtime(fsv, e) > mtime THEN st_mtime(fsv, e)
                             ELSE mtime,
                             Append(files, e))

\* the listing loop of _profile_files for one node: regular files are appended
\* to files, and mtime becomes the newest st_mtime among them
RECURSIVE ScanDir(_, _, _, _)
ScanDir(fsv, entries, mtime, files) ==
    IF entries = <<>> THEN <<mtime, files>>
    ELSE LET e == Head(entries) IN
         IF S_ISREG(e)
         THEN ScanDir(fsv, Tail(entries),
                      IF st_mtime(fsv, e) > mtime THEN st_mtime(fsv, e) ELSE mtime,
                      Append(files, e))
         ELSE ScanDir(fsv, Tail(entries), mtime, files)

\* the loop over profile.stack of _profile_files; cache maps a node path to
\* <<(mtime, files)>> once listed.  A cached node whose mtime is 0 is listed
\* again, appending to the cached list.
RECURSIVE StackFiles(_, _, _, _, _)
StackFiles(fsv, stack, cache, profile_mtime, profile_files) ==
    IF stack = <<>>
    THEN [cache |-> cache, mtime |-> profile_mtime, files |-> profile_files]
    ELSE LET node == Head(stack)
             got == IF cache[node] # <<>> THEN cache[node][1] ELSE <<0, <<>> >>
             now == IF got[1] = 0 THEN ScanDir(fsv, ListDir(node), got[1], got[2])
                    ELSE got
             cache2 == IF got[1] = 0 THEN [cache EXCEPT ![node] = <<now>>]
                       ELSE cache
         IN StackFiles(fsv, Tail(stack), cache2,
                       IF now[1] > profile_mtime THEN now[1] ELSE profile_mtime,
                       profile_files \o now[2])

\* _profile_files that yields the file set without the newest mtime
profile_files_without_mtime(fsv, cache, p) ==
    LET r == StackFiles(fsv, ProfileStack(p), cache, 0, <<>>) IN
    [cache |-> r.cache, value |-> <<0, frozenset(r.files)>>]

\* one send() to the _profile_files coroutine: the cache after it, and the
\* yielded (profile_mtime, frozenset(profile_files))
profile_files(fsv, cache, p) ==
    LET r == StackFiles(fsv, ProfileStack(p), cache, 0, <<>>) IN
    [cache |-> r.cache, value |-> <<r.mtime, frozenset(r.files)>>]

EmptyNodeCache == [n \in Nodes |-> <<>>]

\* profile_data: every profile of arch_profiles is sent through one coroutine
RECURSIVE profile_data_from(_, _, _, _)
profile_data_from(fsv, order, cache, data) ==
    IF order = <<>> THEN [cache |-> cache, data |-> data]
    ELSE LET r == profile_files(fsv, cache, Head(order)) IN
         profile_data_from(fsv, Tail(order), r.cache,
                           [data EXCEPT ![Head(order)] = r.value])

\* chain.from_iterable(self.arch_profiles.values())
ArchProfilesOrder == arch_profiles("amd64") \o arch_profiles("x86")

profile_data(fsv) ==
    profile_data_from(fsv, ArchProfilesOrder, EmptyNodeCache,
                      [p \in Profiles |-> <<0, {}>>])

\* ------------------------------------------------------------ update_cache
\* the keys of profile_filters
StabilityKeys == SelectedArches \cup {unstable_key(a) : a \in SelectedArches}

\* cached_profiles = defaultdict(dict): per profiles base, whether the 'repo'
\* and 'update' keys are set, and the entry stored under each profile path
NoEntries == [p \in Profiles |-> <<>>]
EmptyCachedProfiles ==
    [b \in Repos |-> [repo |-> FALSE, update |-> FALSE, entries |-> NoEntries]]

\* cached_profiles[base].update(cache): every key of the loaded cache replaces
\* the one already there
dict_update(entries, cache) ==
    [p \in Profiles |-> IF cache[p] # <<>> THEN cache[p] ELSE entries[p]]

\* LoadRepo that loads the cache file whatever force says
LoadRepo_ignoring_force(st, repo, force, diskv) ==
    LET base == repo
        marked == [st.cp EXCEPT ![base].repo = TRUE]
    IN [st EXCEPT
           !.cp = [marked EXCEPT ![base].entries = dict_update(@, diskv[base])],
           !.reads = @ \cup {base}]

\* The start of the loop body for one repo of trees: the 'repo' key is set and,
\* unless force, the repo's cache file is loaded into cached_profiles
LoadRepo(st, repo, force, diskv) ==
    LET base == repo
        marked == [st.cp EXCEPT ![base].repo = TRUE]
    IN IF force THEN [st EXCEPT !.cp = marked]
       ELSE [st EXCEPT
                !.cp = [marked EXCEPT
                           ![base].entries = dict_update(@, diskv[base])],
                !.reads = @ \cup {base}]

\* the two ProfileData appended for a profile
AppendProfileData(pf, p, a, c, repo) ==
    [pf EXCEPT
        ![a] = Append(@, StableProfileData(p, a, c, pkg_masks(repo))),
        ![unstable_key(a)] =
            Append(@, UnstableProfileData(p, a, c, pkg_masks(repo)))]

\* the pass and the profile each appended pair of ProfileData comes from
AppendBuilt(built, i, p, a) ==
    [built EXCEPT ![a] = Append(@, <<i, p>>),
                  ![unstable_key(a)] = Append(@, <<i, p>>)]

\* StepProfile that marks the namespace for update on a cache hit too
StepProfile_always_update(st, repo, i, a, p, data, srcv) ==
    LET files == data[p]
        base == ProfileBase(p)
        cached_profile == st.cp[base].entries[p]
        hit == cached_profile # <<>> /\ cached_profile[1].files = files
        c == compile_profile(ProfileSource(srcv[p]), a)
    IN IF hit
       THEN [st EXCEPT
                !.cp = [@ EXCEPT ![base].update = TRUE],
                !.pf = AppendProfileData(@, p, a, cached_profile[1].compiled,
                                         repo),
                !.built = AppendBuilt(@, i, p, a)]
       ELSE IF c = <<>>
       THEN [st EXCEPT !.attempts = @ \cup {<<i, p>>}]
       ELSE [st EXCEPT
                !.attempts = @ \cup {<<i, p>>},
                !.recompiled = @ \cup {<<i, p>>},
                !.cp = [@ EXCEPT
                           ![base].update = TRUE,
                           ![base].entries[p] =
                               <<[files |-> files, compiled |-> c[1]]>>],
                !.pf = AppendProfileData(@, p, a, c[1], repo),
                !.built = AppendBuilt(@, i, p, a)]

\* The body of the profile loop, in the pass i over trees: a cached entry with
\* the live fingerprint is used as stored; otherwise the profile is compiled,
\* and when that raises ProfileError the profile is skipped
StepProfile(st, repo, i, a, p, data, srcv) ==
    LET files == data[p]
        base == ProfileBase(p)
        cached_profile == st.cp[base].entries[p]
        hit == cached_profile # <<>> /\ cached_profile[1].files = files
        c == compile_profile(ProfileSource(srcv[p]), a)
    IN IF hit
       THEN [st EXCEPT
                !.pf = AppendProfileData(@, p, a, cached_profile[1].compiled,
                                         repo),
                !.built = AppendBuilt(@, i, p, a)]
       ELSE IF c = <<>>
       THEN [st EXCEPT !.attempts = @ \cup {<<i, p>>}]
       ELSE [st EXCEPT
                !.attempts = @ \cup {<<i, p>>},
                !.recompiled = @ \cup {<<i, p>>},
                !.cp = [@ EXCEPT
                           ![base].update = TRUE,
                           ![base].entries[p] =
                               <<[files |-> files, compiled |-> c[1]]>>],
                !.pf = AppendProfileData(@, p, a, c[1], repo),
                !.built = AppendBuilt(@, i, p, a)]

RECURSIVE ProfileLoop(_, _, _, _, _, _, _)
ProfileLoop(st, repo, i, a, ps, data, srcv) ==
    IF ps = <<>> THEN st
    ELSE ProfileLoop(StepProfile(st, repo, i, a, Head(ps), data, srcv),
                     repo, i, a, Tail(ps), data, srcv)

RECURSIVE ArchLoop(_, _, _, _, _, _)
ArchLoop(st, repo, i, as, data, srcv) ==
    IF as = <<>> THEN st
    ELSE ArchLoop(ProfileLoop(st, repo, i, Head(as), arch_profiles(Head(as)),
                              data, srcv),
                  repo, i, Tail(as), data, srcv)

RECURSIVE RepoLoop(_, _, _, _, _, _, _)
RepoLoop(st, trees, i, force, diskv, data, srcv) ==
    IF i > Len(trees) THEN st
    ELSE RepoLoop(ArchLoop(LoadRepo(st, trees[i], force, diskv),
                           trees[i], i, SortedArches, data, srcv),
                  trees, i + 1, force, diskv, data, srcv)

\* "dump updated profile filters": the namespaces whose 'update' key is set
SavedBases(cp) == {b \in Repos : cp[b].update}

\* save_cache: the entries of a saved namespace replace its cache file
SaveCaches(cp, diskv) ==
    [b \in Repos |-> IF b \in SavedBases(cp) THEN cp[b].entries ELSE diskv[b]]

\* the grouping test that compares forced_use only
is_similar_forced_only(existing, profile) ==
    existing.forced_use = profile.forced_use

\* the test of the grouping loop, on the first member of a group
is_similar(existing, profile) ==
    /\ existing.masked_use = profile.masked_use
    /\ existing.forced_use = profile.forced_use

\* "for existing in similar": the first group from g on whose first member is
\* similar to the profile at position n of profile_list, 0 when the loop ends
\* without break.  A group holds positions of profile_list: the ProfileData
\* objects themselves, not copies.
RECURSIVE find_existing(_, _, _, _)
find_existing(similar, profile_list, n, g) ==
    IF g > Len(similar) THEN 0
    ELSE IF is_similar(profile_list[similar[g][1]], profile_list[n]) THEN g
    ELSE find_existing(similar, profile_list, n, g + 1)

\* the grouping that opens a group for every profile
group_profiles_singletons(profile_list, n, similar) ==
    [m \in 1..Len(profile_list) |-> <<m>>]

\* "for profile in profile_list": append to the group found, else open a group
RECURSIVE group_profiles(_, _, _)
group_profiles(profile_list, n, similar) ==
    IF n > Len(profile_list) THEN similar
    ELSE LET g == find_existing(similar, profile_list, n, 1) IN
         group_profiles(profile_list, n + 1,
                        IF g = 0 THEN Append(similar, <<n>>)
                        ELSE [similar EXCEPT ![g] = Append(@, n)])

\* self.profile_evaluate_dict after the grouping loop; a key without
\* ProfileData has no groups
profile_evaluate_dict(profile_filters) ==
    [key \in StabilityKeys |-> group_profiles(profile_filters[key], 1, <<>>)]

\* update_cache(force) on a fresh ProfileAddon
update_cache(trees, force, fsv, diskv, srcv) ==
    LET data == profile_data(fsv).data
        st == RepoLoop([cp |-> EmptyCachedProfiles, reads |-> {},
                        attempts |-> {}, recompiled |-> {},
                        pf |-> [k \in StabilityKeys |-> <<>>],
                        built |-> [k \in StabilityKeys |-> <<>>]],
                       trees, 1, force, diskv, data, srcv)
    IN [profile_data |-> data,
        reads |-> st.reads,
        attempts |-> st.attempts,
        recompiled |-> st.recompiled,
        saved |-> SavedBases(st.cp),
        disk |-> SaveCaches(st.cp, diskv),
        profile_filters |-> st.pf,
        built |-> st.built,
        profile_evaluate_dict |-> profile_evaluate_dict(st.pf)]

\* ------------------------------------------------------- identify_profiles
\* pkg.keywords of the packages asked about
KeywordLists ==
    { <<>>, <<"amd64">>, <<"~amd64">>, <<"x86">>, <<"~x86">>,
      <<"amd64", "x86">>, <<"~x86", "x86">>, <<"-*", "arm64">> }
Pkgs == [name : Packages, keywords : KeywordLists]

\* x[0] == '~'
StartsWithTilde(x) == \E a \in KnownArches : x = unstable_key(a)

\* tuple(f'~{x}' for x in keywords if x[0] != '~')
RECURSIVE unstable_keywords(_)
unstable_keywords(keywords) ==
    IF keywords = <<>> THEN <<>>
    ELSE (IF StartsWithTilde(Head(keywords)) THEN <<>>
          ELSE <<unstable_key(Head(keywords))>>)
         \o unstable_keywords(Tail(keywords))

\* the filter that keeps a group whole as soon as one member is visible
visible_of_whole_group(profile_list, profiles, pkg) ==
    IF \E m \in DOMAIN profiles : visible(profile_list[profiles[m]], pkg)
    THEN profiles ELSE <<>>

\* [x for x in profiles if x.visible(pkg)]
visible_of(profile_list, profiles, pkg) ==
    SelectSeq(profiles, LAMBDA n : visible(profile_list[n], pkg))

\* "for profiles in profile_grps": the non-empty filtered groups are appended
RECURSIVE groups_of_key(_, _, _, _)
groups_of_key(key, profile_list, profile_grps, pkg) ==
    IF profile_grps = <<>> THEN <<>>
    ELSE LET group == visible_of(profile_list, Head(profile_grps), pkg) IN
         (IF group # <<>> THEN <<[key |-> key, members |-> group]>> ELSE <<>>)
         \o groups_of_key(key, profile_list, Tail(profile_grps), pkg)

\* "for key in keywords + unstable_keywords"
RECURSIVE groups_of_keys(_, _, _, _)
groups_of_keys(keys, pf, ped, pkg) ==
    IF keys = <<>> THEN <<>>
    ELSE LET key == Head(keys) IN
         (IF key \in StabilityKeys /\ ped[key] # <<>>
          THEN groups_of_key(key, pf[key], ped[key], pkg)
          ELSE <<>>)
         \o groups_of_keys(Tail(keys), pf, ped, pkg)

\* ProfileAddon.identify_profiles(pkg); a returned group names its key and the
\* positions in profile_filters[key] of the ProfileData it holds
identify_profiles(pf, ped, pkg) ==
    groups_of_keys(pkg.keywords \o unstable_keywords(pkg.keywords), pf, ped, pkg)

VARIABLES
    profile_obj,    \* the profile under compilation
    arch,           \* its architecture (stable_key)
    pdata,          \* <<>> or <<[stable, unstable]>>: the two ProfileData
    query,          \* <<>> or <<the last identify_use call and its result>>
    masters,        \* number of masters of the target repo
    fs,             \* st_mtime of every regular file of the profile directories
    src,            \* per profile, the version of its source on disk
    disk,           \* per profiles base, the persisted cache entries
    touched,        \* <<>> or <<the one mtime change since the last update_cache>>
    run,            \* <<>> or <<the last update_cache call>>
    ident,          \* <<>> or <<the last identify_profiles call and its result>>
    memo,           \* per profile, the sets behind cache / insoluble of its pair
    global_insoluble,  \* ProfileAddon.global_insoluble, wrapped by every profile
    memo_op,        \* <<>> or <<the last addition to a memo, and memo before it>>
    profiles_arg,   \* <<>> (no --profiles option) or <<its entries>>
    broken,         \* the profiles whose create_profile raises ProfileError
    namespace,      \* <<>> or <<the options after argument parsing>>
    paddon,         \* <<>> or <<the outcome of ProfileAddon.__init__>>
    exp_profiles_required,  \* namespace.exp_profiles_required, set by --arches
    arches_arg,     \* <<>> or <<the value given to --arches>>
    all_arches,     \* namespace.target_repo.known_arches as ArchesArgs sees it
    arches_ns,      \* <<>> or <<the outcome of ArchesArgs.__call__>>
    xml_in,         \* the metadata.xml file and options a check is fed with
    xml_out,        \* <<>> or <<the results feed yields for it>>
    checks_cfg,     \* options.selected_checks and the attributes of the checks
    checks_run,     \* the locals of init_checks: enabled, source_map, caches
    flat_in,        \* <<>> or <<the nodes and attr given to use_validate>>
    flat_out,       \* <<>> or <<what _flatten_restricts yields, and unstated>>
    addon_cfg,      \* the addon classes: required_addons, CachedAddon, failures
    addons          \* addons_map, the constructions and update_cache calls so far

useVars == <<profile_obj, arch, pdata, query>>
cacheVars == <<masters, fs, src, disk, touched, run>>

identVars == <<ident>>
memoVars == <<memo, memo_op, global_insoluble>>
optVars == <<profiles_arg, broken, namespace, paddon, exp_profiles_required>>
addonVars == <<addon_cfg, addons>>
archVars == <<arches_arg, all_arches, arches_ns>>
checkVars == <<xml_in, xml_out, checks_cfg, checks_run, flat_in, flat_out>>
sideVars == <<identVars, memoVars, optVars, addonVars, archVars, checkVars>>

vars == <<profile_obj, arch, pdata, query, masters, fs, src, disk, touched, run,
          ident, memo, memo_op, global_insoluble, profiles_arg, broken, namespace, paddon,
          exp_profiles_required, arches_arg, all_arches, arches_ns,
          xml_in, xml_out, checks_cfg, checks_run, flat_in, flat_out,
          addon_cfg, addons>>

\* the addon classes of a run, in an order in which a class only requires
\* classes behind it (required_addons is acyclic)
AddonClasses == {"A", "B", "C", "D"}
ClassOrder == <<"A", "B", "C", "D">>
Rank(c) == CHOOSE n \in DOMAIN ClassOrder : ClassOrder[n] = c

\* addons_map = {}: 0 stands for a class without instance
EmptyAddonsMap == [c \in AddonClasses |-> 0]
FreshAddons ==
    [map |-> EmptyAddonsMap, events |-> <<>>, calls |-> 0, aborted |-> FALSE,
     last |-> <<>>]

\* ProtectedSet.add that writes the new member through to the wrapped set
ProtectedSet_orig_written_through(orig, x) == orig \cup {x}

\* the wrapped set after ProtectedSet.add: add only touches the own additions
ProtectedSet_orig(orig, x) == orig

\* The memo sets update_cache creates for one profile: stable_cache = set() is
\* the stable ProfileData's cache; the unstable one's cache is
\* ProtectedSet(stable_cache), whose own additions are unstable_cache_new;
\* unstable_insoluble = ProtectedSet(global_insoluble) is the unstable
\* ProfileData's insoluble, with additions unstable_insoluble_new; the stable
\* one's insoluble is ProtectedSet(unstable_insoluble), with additions
\* stable_insoluble_new
FreshMemo ==
    [stable_cache |-> {}, unstable_cache_new |-> {},
     unstable_insoluble_new |-> {}, stable_insoluble_new |-> {}]

\* ProtectedSet.__contains__: in the wrapped set or among the own additions
ProtectedSet_members(orig, new) == orig \cup new

\* ProtectedSet.add: kept among the own additions unless the wrapped set has it
ProtectedSet_add(orig, new, x) == IF x \in orig THEN new ELSE new \cup {x}

\* the members of the four memo sets of a pair
stable_cache_members(m) == m.stable_cache

\* the unstable cache as a set of its own, not wrapping stable_cache
unstable_cache_members_unshared(m) == m.unstable_cache_new

unstable_cache_members(m) ==
    ProtectedSet_members(stable_cache_members(m), m.unstable_cache_new)

unstable_insoluble_members(m) ==
    ProtectedSet_members(global_insoluble, m.unstable_insoluble_new)

stable_insoluble_members(m) ==
    ProtectedSet_members(unstable_insoluble_members(m), m.stable_insoluble_new)

\* the number of packages added to the memos so far
RECURSIVE SumCard(_, _)
SumCard(m, ps) ==
    IF ps = {} THEN 0
    ELSE LET p == CHOOSE x \in ps : TRUE IN
         Cardinality(m[p].stable_cache) + Cardinality(m[p].unstable_cache_new)
         + Cardinality(m[p].unstable_insoluble_new)
         + Cardinality(m[p].stable_insoluble_new)
         + SumCard(m, ps \ {p})

\* no identify_profiles call made yet, no package memoized yet
SideIdle ==
    /\ ident = <<>>
    /\ memo = [p \in Profiles |-> FreshMemo]
    /\ memo_op = <<>>
    /\ global_insoluble = {}

\* no check fed
CheckIdle ==
    /\ xml_in = <<>>
    /\ xml_out = <<>>
    /\ checks_cfg = <<>>
    /\ checks_run = <<>>
    /\ flat_in = <<>>
    /\ flat_out = <<>>

\* no --arches value parsed
ArchIdle ==
    /\ arches_arg = <<>>
    /\ all_arches = {}
    /\ arches_ns = <<>>

\* no addon initialized yet
AddonIdle ==
    /\ addon_cfg = [required |-> [c \in AddonClasses |-> {}], cached |-> {},
                    raising |-> {}, cache_off |-> FALSE]
    /\ addons = FreshAddons

\* no option parsed yet
OptIdle ==
    /\ profiles_arg = <<>>
    /\ broken = {}
    /\ namespace = <<>>
    /\ paddon = <<>>
    /\ exp_profiles_required = FALSE

\* the cache side before any run: no cache file yet
CacheIdle ==
    /\ masters = 0
    /\ fs = [f \in RegularFiles |-> 1]
    /\ src = [p \in Profiles |-> "a"]
    /\ disk = [b \in Repos |-> NoEntries]
    /\ touched = <<>>
    /\ run = <<>>

\* the identify_use side before any compilation
UseIdle ==
    /\ profile_obj = ProfileSource("a")
    /\ arch = "amd64"
    /\ pdata = <<>>
    /\ query = <<>>

UseInit ==
    /\ profile_obj \in ProfileObjs
    /\ arch \in SelectedArches
    /\ pdata = <<>>
    /\ query = <<>>
    /\ CacheIdle
    /\ SideIdle
    /\ OptIdle
    /\ AddonIdle
    /\ ArchIdle
    /\ CheckIdle

\* update_cache compiles the profile and builds its two ProfileData
UseCompile ==
    /\ pdata = <<>>
    /\ LET c == compile_profile(profile_obj, arch) IN
       /\ c # <<>>
       /\ pdata' = << [stable |-> StableProfileData("p", arch, c[1], {}),
                       unstable |-> UnstableProfileData("p", arch, c[1], {})] >>
    /\ UNCHANGED <<profile_obj, arch, query>>
    /\ UNCHANGED cacheVars
    /\ UNCHANGED sideVars

\* a check calls identify_use on one of the two ProfileData; the call changes
\* nothing, so one call per behaviour reaches every result
UseIdentify ==
    /\ pdata # <<>>
    /\ query = <<>>
    /\ \E stable \in BOOLEAN, pkg \in Packages, known_flags \in KnownFlagSets :
         LET pd == IF stable THEN pdata[1].stable ELSE pdata[1].unstable
             r == identify_use(pd, pkg, known_flags)
         IN query' = << [stable |-> stable, pkg |-> pkg,
                         known_flags |-> known_flags,
                         immutable |-> r.immutable, enabled |-> r.enabled] >>
    /\ UNCHANGED <<profile_obj, arch, pdata>>
    /\ UNCHANGED cacheVars
    /\ UNCHANGED sideVars

UseNext == UseCompile \/ UseIdentify

SpecUse == UseInit /\ [][UseNext]_vars

\* --------------------------------------------------- the profiles cache runs
Init ==
    /\ UseIdle
    /\ masters \in 0..MaxMasters
    /\ fs \in [RegularFiles -> 0..MaxMtime]
    /\ src \in SourceMaps
    /\ disk = [b \in Repos |-> NoEntries]
    /\ touched = <<>>
    /\ run = <<>>
    /\ SideIdle
    /\ OptIdle
    /\ AddonIdle
    /\ ArchIdle
    /\ CheckIdle

\* a file of a profile directory gets another mtime; the process of the last
\* run is over
Touch ==
    /\ \E f \in RegularFiles, t \in 0..MaxMtime :
         /\ t # fs[f]
         /\ fs' = [fs EXCEPT ![f] = t]
    /\ run' = <<>>
    /\ UNCHANGED <<masters, src, disk, touched>>
    /\ UNCHANGED useVars
    /\ UNCHANGED sideVars

\* the same, remembering the change in touched when it is the only one since
\* the last run
TouchOne ==
    /\ \E f \in RegularFiles, t \in 0..MaxMtime :
         /\ t # fs[f]
         /\ fs' = [fs EXCEPT ![f] = t]
         /\ touched' = IF run # <<>> THEN <<[file |-> f, old |-> fs[f]]>> ELSE <<>>
    /\ run' = <<>>
    /\ UNCHANGED <<masters, src, disk>>
    /\ UNCHANGED useVars
    /\ UNCHANGED sideVars

\* a profile's source is edited; the edit keeps the files' mtimes
Edit ==
    /\ \E p \in Profiles : \E v \in SourceVersions(p) :
         /\ v # src[p]
         /\ src' = [src EXCEPT ![p] = v]
    /\ run' = <<>>
    /\ UNCHANGED <<masters, fs, disk, touched>>
    /\ UNCHANGED useVars
    /\ UNCHANGED sideVars

\* one pkgcheck run: init_addon builds the ProfileAddon and calls
\* update_cache(force=force_cache), before any check asks for profiles
UpdateCache ==
    /\ ident = <<>>
    /\ \E force \in BOOLEAN :
         LET r == update_cache(Trees(masters), force, fs, disk, src) IN
         /\ run' = << [force |-> force,
                       diskBefore |-> disk,
                       touchedBefore |-> touched,
                       profile_data |-> r.profile_data,
                       reads |-> r.reads,
                       attempts |-> r.attempts,
                       recompiled |-> r.recompiled,
                       saved |-> r.saved,
                       profile_filters |-> r.profile_filters,
                       built |-> r.built,
                       profile_evaluate_dict |-> r.profile_evaluate_dict] >>
         /\ disk' = r.disk
         /\ touched' = <<>>
    /\ UNCHANGED <<masters, fs, src>>
    /\ UNCHANGED useVars
    /\ UNCHANGED sideVars

Next == Touch \/ Edit \/ UpdateCache

Spec == Init /\ [][Next]_vars

\* runs separated by tracked mtime changes, the profile sources left alone
TouchNext == TouchOne \/ UpdateCache

SpecTouch == Init /\ [][TouchNext]_vars

\* --------------------------------------------- runs followed by one query
\* a check asks identify_profiles about a package; the call changes nothing, so
\* one call per behaviour reaches every result
IdentifyProfiles ==
    /\ run # <<>>
    /\ ident = <<>>
    /\ \E pkg \in Pkgs :
         ident' = << [pkg |-> pkg,
                      groups |-> identify_profiles(run[1].profile_filters,
                                                   run[1].profile_evaluate_dict,
                                                   pkg)] >>
    /\ UNCHANGED useVars
    /\ UNCHANGED cacheVars
    /\ UNCHANGED memoVars
    /\ UNCHANGED optVars
    /\ UNCHANGED addonVars
    /\ UNCHANGED archVars
    /\ UNCHANGED checkVars

IdentInit ==
    /\ UseIdle
    /\ masters \in 0..MaxMasters
    /\ fs = [f \in RegularFiles |-> 1]
    /\ src \in SourceMaps
    /\ disk = [b \in Repos |-> NoEntries]
    /\ touched = <<>>
    /\ run = <<>>
    /\ SideIdle
    /\ OptIdle
    /\ AddonIdle
    /\ ArchIdle
    /\ CheckIdle

IdentNext == UpdateCache \/ IdentifyProfiles

SpecIdentify == IdentInit /\ [][IdentNext]_vars

\* ------------------------------------------- the lookup memos of a profile
\* a check adds a package to profile.cache of the stable or the unstable
\* ProfileData of a profile
MemoCacheAdd ==
    /\ SumCard(memo, Profiles) < MaxAdds
    /\ \E p \in Profiles, stable \in BOOLEAN, pkg \in Packages :
         /\ memo' = IF stable
                     THEN [memo EXCEPT ![p].stable_cache = @ \cup {pkg}]
                     ELSE [memo EXCEPT ![p].unstable_cache_new =
                              ProtectedSet_add(stable_cache_members(memo[p]),
                                               @, pkg),
                                       ![p].stable_cache =
                                              ProtectedSet_orig(@, pkg)]
         /\ memo_op' = << [profile |-> p, set |-> "cache", stable |-> stable,
                           pkg |-> pkg, before |-> memo,
                           global_before |-> global_insoluble] >>
    /\ UNCHANGED global_insoluble
    /\ UNCHANGED useVars
    /\ UNCHANGED cacheVars
    /\ UNCHANGED identVars
    /\ UNCHANGED optVars
    /\ UNCHANGED addonVars
    /\ UNCHANGED archVars
    /\ UNCHANGED checkVars

\* a check adds a package to profile.insoluble of the stable or the unstable
\* ProfileData of a profile
MemoInsolubleAdd ==
    /\ SumCard(memo, Profiles) < MaxAdds
    /\ \E p \in Profiles, stable \in BOOLEAN, pkg \in Packages :
         /\ memo' = IF stable
                     THEN [memo EXCEPT ![p].stable_insoluble_new =
                              ProtectedSet_add(unstable_insoluble_members(memo[p]),
                                               @, pkg)]
                     ELSE [memo EXCEPT ![p].unstable_insoluble_new =
                              ProtectedSet_add(global_insoluble, @, pkg)]
         /\ global_insoluble' = IF stable THEN global_insoluble
                                ELSE ProtectedSet_orig(global_insoluble, pkg)
         /\ memo_op' = << [profile |-> p, set |-> "insoluble", stable |-> stable,
                           pkg |-> pkg, before |-> memo,
                           global_before |-> global_insoluble] >>
    /\ UNCHANGED useVars
    /\ UNCHANGED cacheVars
    /\ UNCHANGED identVars
    /\ UNCHANGED optVars
    /\ UNCHANGED addonVars
    /\ UNCHANGED archVars
    /\ UNCHANGED checkVars

MemoInit ==
    /\ UseIdle
    /\ CacheIdle
    /\ SideIdle
    /\ OptIdle
    /\ AddonIdle
    /\ ArchIdle
    /\ CheckIdle

MemoNext == MemoCacheAdd \/ MemoInsolubleAdd

SpecMemo == MemoInit /\ [][MemoNext]_vars

\* ------------------------------------- --profiles and ProfileAddon.__init__
\* target_repo.profiles: per profile its status of profiles.desc and whether
\* it is deprecated
RepoProfiles == Profiles
ProfileStatus(p) ==
    CASE p = "p1" -> "stable"
      [] p = "p2" -> "dev"
      [] OTHER -> "exp"
ProfileDeprecated(p) == p = "p2"

\* repo.profiles.get_profiles(status=s)
get_profiles(s) ==
    IF s = "deprecated" THEN {p \in RepoProfiles : ProfileDeprecated(p)}
    ELSE {p \in RepoProfiles : ProfileStatus(p) = s}

\* the entries of a --profiles value: a name, with or without a leading '-'
TokenNames == RepoProfiles \cup {"stable", "deprecated", "all", "nonexistent"}
Tokens == [neg : BOOLEAN, name : TokenNames]

RECURSIVE TokenSeqs(_)
TokenSeqs(n) ==
    IF n = 0 THEN {<<>>}
    ELSE LET shorter == TokenSeqs(n - 1) IN
         shorter \cup {Append(ts, t) : ts \in shorter, t \in Tokens}

\* ProfilesArgs.norm_name(repo, s): <<the profiles s stands for>>, or <<>> when
\* it raises ValueError (nonexistent profile)
norm_name(s) ==
    IF s \in {"dev", "exp", "stable", "deprecated"} THEN <<get_profiles(s)>>
    ELSE IF s = "all" THEN <<RepoProfiles>>
    ELSE IF s \in RepoProfiles THEN <<{s}>>
    ELSE <<>>

\* CommaSeparatedNegations.parse_values: the names with a leading '-' and the
\* others; a name on both sides is an argument error
parse_values(values) ==
    LET disabled == {values[n].name : n \in {m \in DOMAIN values : values[m].neg}}
        enabled == {values[n].name : n \in {m \in DOMAIN values : ~values[m].neg}}
    IN IF disabled \cap enabled # {} THEN <<>>
       ELSE <<[disabled |-> disabled, enabled |-> enabled]>>

\* set().union(*map(norm_name, names))
norm_names(names) == UNION {norm_name(s)[1] : s \in {x \in names : norm_name(x) # <<>>}}

\* ProfilesArgs.__call__: <<>> when the parser errors out, else the namespace
\* with selected_profiles, profiles and ignore_deprecated_profiles set
ProfilesArgs_call(values) ==
    LET parsed == parse_values(values) IN
    IF parsed = <<>> THEN <<>>
    ELSE IF \E s \in parsed[1].disabled \cup parsed[1].enabled : norm_name(s) = <<>>
    THEN <<>>
    ELSE LET disabled == norm_names(parsed[1].disabled)
             named == norm_names(parsed[1].enabled)
             enabled == IF named = {} THEN RepoProfiles ELSE named
             profiles == enabled \ disabled
         IN <<[selected_profiles |-> <<profiles>>,
               profiles |-> profiles,
               ignore_deprecated_profiles |->
                   <<"deprecated" \notin parsed[1].enabled>>]>>

\* ProfileAddon._default_profiles, the delayed default of options.profiles
\* when --profiles is not given: selected_profiles stays None and
\* ignore_deprecated_profiles unset
default_profiles(required) ==
    <<[selected_profiles |-> <<>>,
       profiles |-> IF required THEN RepoProfiles
                    ELSE RepoProfiles \ get_profiles("exp"),
       ignore_deprecated_profiles |-> <<>>]>>

\* the loop of ProfileAddon.__init__ over sorted(options.profiles): deprecated
\* profiles are passed over when ignore_deprecated; a profile whose creation
\* raises ProfileError either ends the loop with PkgcheckUserException or is
\* passed over; the others are appended to arch_profiles[p.arch]
RECURSIVE init_profiles(_, _, _, _)
init_profiles(ps, options, brokenv, arch_profilesv) ==
    IF ps = <<>> THEN [raised |-> <<>>, arch_profiles |-> arch_profilesv]
    ELSE LET p == Head(ps)
             ignore_deprecated ==
                 IF options.ignore_deprecated_profiles = <<>> THEN TRUE
                 ELSE options.ignore_deprecated_profiles[1]
         IN IF p \notin options.profiles \/ (ProfileDeprecated(p) /\ ignore_deprecated)
            THEN init_profiles(Tail(ps), options, brokenv, arch_profilesv)
            ELSE IF p \in brokenv
            THEN IF options.selected_profiles # <<>>
                 THEN [raised |-> <<p>>, arch_profiles |-> arch_profilesv]
                 ELSE init_profiles(Tail(ps), options, brokenv, arch_profilesv)
            ELSE init_profiles(Tail(ps), options, brokenv,
                               [arch_profilesv EXCEPT
                                   ![ProfileArch(p)] = Append(@, p)])

\* ProfileAddon.__init__(options)
ProfileAddon_init(options, brokenv) ==
    init_profiles(SortedProfiles, options, brokenv,
                  [a \in KnownArches |-> <<>>])

\* argument parsing: the --profiles value goes through ProfilesArgs, or the
\* delayed default fills options.profiles
ParseArgs ==
    /\ namespace = <<>>
    /\ \/ /\ profiles_arg # <<>>
          /\ ProfilesArgs_call(profiles_arg[1]) # <<>>
          /\ namespace' = ProfilesArgs_call(profiles_arg[1])
       \/ /\ profiles_arg = <<>>
          /\ namespace' = default_profiles(exp_profiles_required)
    /\ UNCHANGED <<profiles_arg, broken, paddon, exp_profiles_required>>
    /\ UNCHANGED <<useVars, cacheVars, identVars, memoVars, addonVars, archVars, checkVars>>

\* init_addon constructs the ProfileAddon from the parsed options
InitProfileAddon ==
    /\ namespace # <<>>
    /\ paddon = <<>>
    /\ paddon' = <<ProfileAddon_init(namespace[1], broken)>>
    /\ UNCHANGED <<profiles_arg, broken, namespace, exp_profiles_required>>
    /\ UNCHANGED <<useVars, cacheVars, identVars, memoVars, addonVars, archVars, checkVars>>

OptInit ==
    /\ UseIdle
    /\ CacheIdle
    /\ SideIdle
    /\ AddonIdle
    /\ ArchIdle
    /\ CheckIdle
    /\ profiles_arg \in {<<>>} \cup {<<ts>> : ts \in TokenSeqs(MaxTokens) \ {<<>>}}
    /\ broken \in SUBSET RepoProfiles
    /\ namespace = <<>>
    /\ paddon = <<>>
    /\ exp_profiles_required \in BOOLEAN

OptNext == ParseArgs \/ InitProfileAddon

SpecOptions == OptInit /\ [][OptNext]_vars

\* -------------------------------------------------------------- ArchesArgs
\* the names a --arches value can hold: arches of the repo, a prefix arch
\* (with '-' in its name) and a name no repo knows
ArchNames == {"amd64", "x86", "amd64-linux", "bogus"}
HasDash(a) == a = "amd64-linux"
ArchTokens == [neg : BOOLEAN, name : ArchNames]

\* what target_repo.known_arches can be: a repo without arch list, one with
\* plain arches, one with a prefix arch
KnownArchSets == {{}, {"amd64", "x86"}, {"amd64", "x86", "amd64-linux"}}

RECURSIVE ArchTokenSeqs(_)
ArchTokenSeqs(n) ==
    IF n = 0 THEN {<<>>}
    ELSE LET shorter == ArchTokenSeqs(n - 1) IN
         shorter \cup {Append(ts, t) : ts \in shorter, t \in ArchTokens}

\* all(p.status == 'exp' for p in target_repo.profiles if p.arch == arch)
only_exp_profiles(a) ==
    \A p \in RepoProfiles : ProfileArch(p) = a => ProfileStatus(p) = "exp"

\* all_arches and (unknown_arches := arches.difference(all_arches))
unknown_arches(parsed, arches, known) ==
    IF known # {} THEN arches \ known ELSE {}

\* ArchesArgs.__call__(parser, namespace, values): the error the parser ends
\* with ("" for none), namespace.arches (<<>> when left unset) and whether
\* namespace.exp_profiles_required was set
ArchesArgs_call(values, known) ==
    LET parsed == parse_values(values) IN
    IF parsed = <<>>
    THEN [error |-> "colliding values", arches |-> <<>>, exp_set |-> FALSE]
    ELSE LET enabled == IF parsed[1].enabled = {}
                        THEN {a \in known : ~HasDash(a)}
                        ELSE parsed[1].enabled
             arches == enabled \ parsed[1].disabled
         IN IF unknown_arches(parsed[1], arches, known) # {}
            THEN [error |-> "unknown arch", arches |-> <<>>, exp_set |-> FALSE]
            ELSE [error |-> "", arches |-> <<arches>>,
                  exp_set |-> \E a \in arches : only_exp_profiles(a)]

\* the parser hands the --arches value to ArchesArgs
ParseArches ==
    /\ arches_arg # <<>>
    /\ arches_ns = <<>>
    /\ LET r == ArchesArgs_call(arches_arg[1], all_arches) IN
         /\ arches_ns' = <<r>>
         /\ exp_profiles_required' = (exp_profiles_required \/ r.exp_set)
    /\ UNCHANGED <<arches_arg, all_arches>>
    /\ UNCHANGED <<profiles_arg, broken, namespace, paddon>>
    /\ UNCHANGED <<useVars, cacheVars, identVars, memoVars, addonVars, checkVars>>

ArchInit ==
    /\ UseIdle
    /\ CacheIdle
    /\ SideIdle
    /\ OptIdle
    /\ AddonIdle
    /\ CheckIdle
    /\ arches_arg \in {<<ts>> : ts \in ArchTokenSeqs(MaxTokens)}
    /\ all_arches \in KnownArchSets
    /\ arches_ns = <<>>

ArchNext == ParseArches

SpecArches == ArchInit /\ [][ArchNext]_vars

\* ------------------------------------------------------- metadata.xml scan
\* the schemas a check can hold: the metadata.xsd of the target repo or the
\* one installed with pkgcore
Schemas == {"repo", "pkgcore"}

\* the results of the parsing stages and of the content checks
StageResults == {"missing_error", "misformed_error", "invalid_error"}
ContentResults == {"empty_element", "catref_error", "indent_error"}

\* a metadata.xml file: whether etree.parse can read it, whether it is well
\* formed, the schemas it violates, and what the content checks find in it
XmlFiles ==
    [readable : BOOLEAN, well_formed : BOOLEAN, violates : SUBSET Schemas,
     findings : SUBSET ContentResults]

\* metadata/xml-schema/metadata.xsd of the target repo: no such file, a
\* schema, or a file XMLSchema rejects (XMLSchemaParseError)
XsdFiles == {"absent", "schema", "broken"}

\* _XmlBaseCheck.__init__: the schema of the repo when it has a usable one,
\* else (the for loop ends without break) the one installed with pkgcore
init_schema(xsd) == IF xsd = "schema" THEN <<"repo">> ELSE <<"pkgcore">>

\* self.schema.validate(doc)
validate(schema, file) == schema \notin file.violates

\* the _check_* methods in dir() order and what each yields for the document
check_names == <<"_check_doc", "_check_whitespace">>
check_results(name, file) ==
    IF name = "_check_doc"
    THEN SelectSeq(<<"empty_element", "catref_error">>,
                   LAMBDA r : r \in file.findings)
    ELSE SelectSeq(<<"indent_error">>, LAMBDA r : r \in file.findings)

\* for check in self._checks: yield from check(pkg, loc, doc)
RECURSIVE run_checks(_, _)
run_checks(names, file) ==
    IF names = <<>> THEN <<>>
    ELSE check_results(Head(names), file) \o run_checks(Tail(names), file)

\* the validation stage without its return
validation_stage_falling_through(schema, file) ==
    (IF schema # <<>> /\ ~validate(schema[1], file)
     THEN <<"invalid_error">> ELSE <<>>) \o run_checks(check_names, file)

\* _parse_xml behind the parsed document: the schema validation, which ends
\* the scan with the invalid result, else the content checks
validation_stage(schema, file) ==
    IF schema # <<>> /\ ~validate(schema[1], file)
    THEN <<"invalid_error">>
    ELSE run_checks(check_names, file)

\* _parse_xml(pkg, loc): the results it yields, in order
parse_xml(file, gentoo_repo, schema) ==
    IF ~file.readable
    THEN IF gentoo_repo THEN <<"missing_error">> ELSE <<>>
    ELSE IF ~file.well_formed THEN <<"misformed_error">>
    ELSE validation_stage(schema, file)

\* feed(pkgset): the check is fed a package and yields from _parse_xml
Feed ==
    /\ xml_in # <<>>
    /\ xml_out = <<>>
    /\ xml_out' = << parse_xml(xml_in[1].file, xml_in[1].gentoo_repo,
                               init_schema(xml_in[1].xsd)) >>
    /\ UNCHANGED <<xml_in, checks_cfg, checks_run, flat_in, flat_out>>
    /\ UNCHANGED <<useVars, cacheVars, identVars, memoVars, optVars, addonVars,
                   archVars>>

XmlInit ==
    /\ UseIdle
    /\ CacheIdle
    /\ SideIdle
    /\ OptIdle
    /\ AddonIdle
    /\ ArchIdle
    /\ xml_in \in {<<i>> : i \in [file : XmlFiles, gentoo_repo : BOOLEAN,
                                     xsd : XsdFiles]}
    /\ xml_out = <<>>
    /\ checks_cfg = <<>>
    /\ checks_run = <<>>
    /\ flat_in = <<>>
    /\ flat_out = <<>>

XmlNext == Feed

SpecXml == XmlInit /\ [][XmlNext]_vars

\* ------------------------------------------------------ _flatten_restricts
\* the flags a Conditional's restriction can test, and the one plain node
RestrictFlags == {"u", "w"}
LeafNode == [kind |-> "node", vals |-> {"n"}]

\* pkg.iuse_stripped of the package under validation
stated == {"u", "n"}

\* the number of nodes of a sequence of nodes, payloads included
RECURSIVE Size(_)
Size(nodes) ==
    IF nodes = <<>> THEN 0
    ELSE (IF Head(nodes).kind = "node" THEN 1
          ELSE 1 + Size(Head(nodes).payload)) + Size(Tail(nodes))

\* what iflatten_instance(seq, skip_filter) hands over: sequences of plain
\* nodes and packages.Conditional nodes (restriction, payload) of at most n
\* nodes
RECURSIVE NodeSeqs(_)
NodeSeqs(n) ==
    IF n = 0 THEN {<<>>}
    ELSE LET smaller == NodeSeqs(n - 1)
             firsts == {LeafNode}
                        \cup {[kind |-> "cond", restriction |-> r, payload |-> f] :
                                 r \in RestrictFlags, f \in smaller}
         IN {<<>>} \cup {ns \in {<<x>> \o rest : x \in firsts, rest \in smaller} :
                            Size(ns) <= n}

\* unstated.update(filterfalse(stated.__contains__, vals))
update_unstated(unstated, vals) == unstated \cup (vals \ stated)

\* the loop of _flatten_restricts called with the list restricts: v is that
\* one list object for every node of the loop, v.append adds to it, and
\* tuple(v) is taken when the pair is yielded.  The value is what is yielded,
\* the list as the loop leaves it, and unstated.
RECURSIVE flatten_nested(_, _, _, _)
flatten_nested(nodes, attr, restricts, st) ==
    IF nodes = <<>> THEN [st EXCEPT !.restricts = restricts]
    ELSE LET node == Head(nodes) IN
         IF node.kind = "cond"
         THEN LET v == Append(restricts, node.restriction)
                  inner == flatten_nested(
                      node.payload, attr, v,
                      [st EXCEPT !.unstated =
                          update_unstated(@, {node.restriction})])
              IN flatten_nested(Tail(nodes), attr, inner.restricts, inner)
         ELSE flatten_nested(
                  Tail(nodes), attr, restricts,
                  [st EXCEPT
                      !.yielded = Append(@, [k |-> node, v |-> restricts]),
                      !.unstated = IF attr = "required_use"
                                   THEN update_unstated(@, node.vals) ELSE @])

\* the loop of _flatten_restricts called with restricts=None: v is a new
\* empty list for every node of the loop
RECURSIVE flatten_restricts(_, _, _)
flatten_restricts(nodes, attr, st) ==
    IF nodes = <<>> THEN st
    ELSE flatten_restricts(Tail(nodes), attr,
                           flatten_nested(<<Head(nodes)>>, attr, <<>>, st))

\* use_validate(klasses, pkg, seq, attr): dict() takes every pair the
\* generator yields
UseValidate ==
    /\ flat_in # <<>>
    /\ flat_out = <<>>
    /\ LET r == flatten_restricts(flat_in[1].nodes, flat_in[1].attr,
                                  [yielded |-> <<>>, unstated |-> {},
                                   restricts |-> <<>>])
       IN flat_out' = << [yielded |-> r.yielded, unstated |-> r.unstated] >>
    /\ UNCHANGED <<flat_in, xml_in, xml_out, checks_cfg, checks_run>>
    /\ UNCHANGED <<useVars, cacheVars, identVars, memoVars, optVars, addonVars,
                   archVars>>

FlatInit ==
    /\ UseIdle
    /\ CacheIdle
    /\ SideIdle
    /\ OptIdle
    /\ AddonIdle
    /\ ArchIdle
    /\ xml_in = <<>>
    /\ xml_out = <<>>
    /\ checks_cfg = <<>>
    /\ checks_run = <<>>
    /\ flat_in \in {<<i>> : i \in [nodes : NodeSeqs(MaxNodes),
                                      attr : {"required_use", "depend"}]}
    /\ flat_out = <<>>

FlatNext == UseValidate

SpecFlatten == FlatInit /\ [][FlatNext]_vars

\* -------------------------------------------------------------- init_addon
\* the classes' configurations: which classes a class requires, which are
\* CachedAddon, whose constructor raises SkipOptionalCheck, and whether
\* options.cache disables the cache type of the cached ones
AddonCfgs ==
    [required : {g \in [AddonClasses -> SUBSET AddonClasses] :
                    \A c \in AddonClasses : \A d \in g[c] : Rank(c) < Rank(d)},
     cached : {{}, {"D"}, {"B", "D"}},
     raising : {{}, {"A"}, {"B"}},
     cache_off : BOOLEAN]

\* chain.from_iterable(x.required_addons for x in cls.__mro__ ...)
required_addons(cfg, cls) ==
    SelectSeq(ClassOrder, LAMBDA d : d \in cfg.required[cls])

\* the instance a construction yields: instances are numbered as constructed
new_instance(events) ==
    Cardinality({n \in DOMAIN events : events[n].ev = "construct"}) + 1

\* init_addon that does not keep the new instance in addons_map
store_addon_nowhere(map, cls, inst) == map

\* addon = addons_map[cls] = cls(options, **kwargs)
store_addon(map, cls, inst) == [map EXCEPT ![cls] = inst]

\* init_addon that leaves the cache of a new CachedAddon to its first use
force_cache_update_lazy(cfg, cls, inst, events) == events

\* if isinstance(addon, caches.CachedAddon): addon.update_cache(force=...)
\* update_cache runs to its end within this call: all repos, arches and
\* profiles, the dump of the cache files and the grouping loop
force_cache_update(cfg, cls, inst, events) ==
    IF cls \in cfg.cached
    THEN Append(events, [ev |-> "update_cache", cls |-> cls, inst |-> inst])
    ELSE events

\* init_addon(cls, options, addons_map) on the state st = [map, events]:
\* the state after it and <<the instance returned>>, or <<>> when it raises
\* (raised names the exception).  init_required is the dict comprehension
\* over required_addons, which stops at the first requirement that raises.
RECURSIVE init_addon(_, _, _)
RECURSIVE init_required(_, _, _)
init_addon(cfg, cls, st) ==
    IF st.map[cls] # 0
    THEN [st |-> st, result |-> <<st.map[cls]>>, raised |-> ""]
    ELSE LET r == init_required(cfg, required_addons(cfg, cls), st) IN
         IF r.raised # "" THEN [st |-> r.st, result |-> <<>>, raised |-> r.raised]
         ELSE IF cls \in cfg.cached /\ cfg.cache_off
         THEN [st |-> r.st, result |-> <<>>, raised |-> "CacheDisabled"]
         ELSE IF cls \in cfg.raising
         THEN [st |-> r.st, result |-> <<>>, raised |-> "SkipOptionalCheck"]
         ELSE LET inst == new_instance(r.st.events)
                  constructed ==
                      Append(r.st.events,
                             [ev |-> "construct", cls |-> cls, inst |-> inst])
              IN [st |-> [map |-> store_addon(r.st.map, cls, inst),
                          events |-> force_cache_update(cfg, cls, inst, constructed)],
                  result |-> <<inst>>, raised |-> ""]

init_required(cfg, reqs, st) ==
    IF reqs = <<>> THEN [st |-> st, raised |-> ""]
    ELSE LET r == init_addon(cfg, Head(reqs), st) IN
         IF r.raised # "" THEN [st |-> r.st, raised |-> r.raised]
         ELSE init_required(cfg, Tail(reqs), r.st)

\* init_checks calls init_addon for a class with the addons_map of the run; a
\* SkipOptionalCheck is caught and the loop goes on, any other exception ends
\* the run
InitAddon ==
    /\ addons.calls < MaxCalls
    /\ ~addons.aborted
    /\ \E cls \in AddonClasses :
         LET r == init_addon(addon_cfg, cls,
                             [map |-> addons.map, events |-> addons.events])
         IN addons' = [map |-> r.st.map, events |-> r.st.events,
                       calls |-> addons.calls + 1,
                       aborted |-> r.raised = "CacheDisabled",
                       last |-> << [cls |-> cls, before |-> addons.map,
                                    eventsBefore |-> Len(addons.events),
                                    result |-> r.result] >>]
    /\ UNCHANGED addon_cfg
    /\ UNCHANGED <<useVars, cacheVars, identVars, memoVars, optVars, archVars, checkVars>>

AddonInit ==
    /\ UseIdle
    /\ CacheIdle
    /\ SideIdle
    /\ OptIdle
    /\ ArchIdle
    /\ CheckIdle
    /\ addon_cfg \in AddonCfgs
    /\ addons = FreshAddons

AddonNext == InitAddon

SpecAddons == AddonInit /\ [][AddonNext]_vars

\* -------------------------------------------------------------- init_checks
\* the classes of enabled_addons that are Check subclasses; the others are
\* plain addons the checks require
CheckClasses == {"A", "B"}
Scopes == {"package", "version"}
SourceNames == {"S1", "S2"}

\* scope, source and AsyncCheck-ness of the two checks: alike in all three,
\* differing in the source, differing in being asynchronous
CheckAttrs ==
    { [c \in CheckClasses |->
          [scope |-> "version", source |-> "S1", is_async |-> FALSE]],
      [c \in CheckClasses |->
          [scope |-> "version", source |-> IF c = "A" THEN "S1" ELSE "S2",
           is_async |-> FALSE]],
      [c \in CheckClasses |->
          [scope |-> IF c = "A" THEN "package" ELSE "version", source |-> "S1",
           is_async |-> c = "B"]] }

\* the configurations init_checks is run on: D is the cached addon, its cache
\* type enabled
CheckCfgs == {c \in AddonCfgs : c.cached = {"D"} /\ ~c.cache_off}

\* enabled = defaultdict(lambda: defaultdict(list)): a list per scope and
\* (source, is_async); sources are numbered as init_source makes them
EnabledKeys == Scopes \X (1..Cardinality(SourceNames)) \X BOOLEAN
FreshChecksRun ==
    [enabled |-> [k \in EnabledKeys |-> <<>>],
     source_map |-> [n \in SourceNames |-> 0],
     caches |-> <<>>, outcomes |-> <<>>, raised |-> ""]

\* a lookup that finds no source, so that every check gets a source of its own
get_source_never_shared(source_map, name) == 0

\* source_map.get(addon.source): 0 stands for None
get_source(source_map, name) == source_map[name]

\* the source init_source makes: sources are numbered in the order made
new_source(source_map) ==
    Cardinality({n \in SourceNames : source_map[n] # 0}) + 1

\* the part of the loop body behind the try block, for the addon returned
register_addon(cfg, attrs, lcl, cls, inst) ==
    LET found == get_source(lcl.source_map, attrs[cls].source)
        source == IF found = 0 THEN new_source(lcl.source_map) ELSE found
        key == <<attrs[cls].scope, source, attrs[cls].is_async>>
        checked ==
            IF cls \in CheckClasses
            THEN [lcl EXCEPT
                    !.source_map[attrs[cls].source] = source,
                    !.enabled[key] = Append(@, [cls |-> cls, inst |-> inst])]
            ELSE lcl
    IN IF cls \in cfg.cached
       THEN [checked EXCEPT !.caches = Append(@, inst)]
       ELSE checked

\* one round of the loop of init_checks over enabled_addons, a set of classes
\* the caller iterates in any order: init_addon with the addons_map of the
\* run; SkipOptionalCheck is re-raised for a selected check and otherwise
\* passes the class over; any other exception ends init_checks
InitCheck ==
    /\ checks_run # <<>>
    /\ checks_run[1].raised = ""
    /\ addons.calls < MaxCalls
    /\ \E cls \in AddonClasses :
         /\ \A n \in DOMAIN checks_run[1].outcomes :
               checks_run[1].outcomes[n].cls # cls
         /\ LET r == init_addon(addon_cfg, cls,
                                [map |-> addons.map, events |-> addons.events])
                lcl == [checks_run[1] EXCEPT
                          !.outcomes = Append(@, [cls |-> cls,
                                                  result |-> r.result,
                                                  raised |-> r.raised])]
            IN /\ addons' = [map |-> r.st.map, events |-> r.st.events,
                             calls |-> addons.calls + 1,
                             aborted |-> r.raised = "CacheDisabled",
                             last |-> << [cls |-> cls, before |-> addons.map,
                                          eventsBefore |-> Len(addons.events),
                                          result |-> r.result] >>]
               /\ checks_run' =
                    IF r.raised = "SkipOptionalCheck"
                    THEN IF cls \in checks_cfg[1].selected_checks
                         THEN << [lcl EXCEPT !.raised = r.raised] >>
                         ELSE <<lcl>>
                    ELSE IF r.raised # ""
                    THEN << [lcl EXCEPT !.raised = r.raised] >>
                    ELSE << register_addon(addon_cfg, checks_cfg[1].attrs, lcl,
                                           cls, r.result[1]) >>
    /\ UNCHANGED <<addon_cfg, checks_cfg, xml_in, xml_out, flat_in, flat_out>>
    /\ UNCHANGED <<useVars, cacheVars, identVars, memoVars, optVars, archVars>>

ChecksInit ==
    /\ UseIdle
    /\ CacheIdle
    /\ SideIdle
    /\ OptIdle
    /\ ArchIdle
    /\ xml_in = <<>>
    /\ xml_out = <<>>
    /\ flat_in = <<>>
    /\ flat_out = <<>>
    /\ addon_cfg \in CheckCfgs
    /\ addons = FreshAddons
    /\ checks_cfg \in {<<c>> : c \in [selected_checks : SUBSET CheckClasses,
                                         attrs : CheckAttrs]}
    /\ checks_run = <<FreshChecksRun>>

ChecksNext == InitCheck

SpecChecks == ChecksInit /\ [][ChecksNext]_vars

\* ----------------------------------------------------- identify_use claims
\* the ProfileData the recorded call was made on, and what its rule-sets
\* resolve to for the call's package
QueryPD == IF query[1].stable THEN pdata[1].stable ELSE pdata[1].unstable
QueryForced == pull_data(QueryPD.forced_use, query[1].pkg)
QueryMasked == pull_data(QueryPD.masked_use, query[1].pkg)

\* C1: identify_use returns enabled = (known_flags \cap forced) \ masked and
\* immutable = (known_flags \cap forced) \cup (known_flags \cap masked).
C1_IdentifyUseSets ==
    query # <<>> =>
        /\ query[1].enabled = (query[1].known_flags \cap QueryForced) \ QueryMasked
        /\ query[1].immutable = (query[1].known_flags \cap QueryForced)
                                \cup (query[1].known_flags \cap QueryMasked)

\* a call in which a known flag is both forced and masked, and one only masked
C1_Witness ==
    /\ query # <<>>
    /\ query[1].known_flags \cap QueryForced \cap QueryMasked # {}
    /\ (query[1].known_flags \cap QueryMasked) \ QueryForced # {}
    /\ query[1].enabled # {}

\* C2: both returned sets are subsets of known_flags, and enabled is a subset
\* of immutable.
C2_SubsetsOfKnown ==
    query # <<>> =>
        /\ query[1].immutable \subseteq query[1].known_flags
        /\ query[1].enabled \subseteq query[1].known_flags
        /\ query[1].enabled \subseteq query[1].immutable

\* a call whose rule-sets resolve to flags outside known_flags
C2_Witness ==
    /\ query # <<>>
    /\ QueryMasked \ query[1].known_flags # {}
    /\ QueryForced \ query[1].known_flags # {}
    /\ query[1].immutable # {}

\* C3 as stated: every flag both forced and masked for the package is excluded
\* from enabled and included in immutable, whatever known_flags is.
C3_MaskWinsAnyFlag ==
    query # <<>> =>
        \A f \in QueryForced \cap QueryMasked :
            f \notin query[1].enabled /\ f \in query[1].immutable

\* C3 amended: every flag of known_flags that is both forced and masked for the
\* package is excluded from enabled and included in immutable.
C3_MaskWinsKnownFlag ==
    query # <<>> =>
        \A f \in QueryForced \cap QueryMasked \cap query[1].known_flags :
            f \notin query[1].enabled /\ f \in query[1].immutable

\* a call with a known flag that is both forced and masked
C3_Witness ==
    /\ query # <<>>
    /\ QueryForced \cap QueryMasked \cap query[1].known_flags # {}

\* the profile of the scenario: forces foo and masks bar for all packages, on
\* amd64, so that default_masked_use = {x86, arm64}
C4_Scenario ==
    /\ arch = "amd64"
    /\ profile_obj.masked_use = <<mk_item(AlwaysTrue, {}, {"bar"})>>
    /\ profile_obj.stable_masked_use = profile_obj.masked_use
    /\ profile_obj.forced_use = <<mk_item(AlwaysTrue, {}, {"foo"})>>
    /\ profile_obj.stable_forced_use = profile_obj.forced_use
    /\ query # <<>>
    /\ query[1].known_flags = {"foo", "bar", "baz"}

\* C4: in the scenario identify_use(P, {foo, bar, baz}) gives immutable
\* {foo, bar} and enabled {foo}; baz is in neither.
C4_ScenarioResult ==
    C4_Scenario =>
        /\ query[1].immutable = {"foo", "bar"}
        /\ query[1].enabled = {"foo"}
        /\ "baz" \notin query[1].immutable \cup query[1].enabled

\* the scenario's call was made, with the compiled masks in place
C4_Witness ==
    /\ C4_Scenario
    /\ query[1].pkg = "P"
    /\ QueryMasked = {"bar", "x86", "arm64"}
    /\ QueryForced = {"foo", "amd64"}

\* C5 as stated: the stable ProfileData never reports as enabled a flag that is
\* masked under the unstable ProfileData of the same profile.
C5_StableEnabledNotUnstableMasked ==
    (query # <<>> /\ query[1].stable) =>
        query[1].enabled
            \cap pull_data(pdata[1].unstable.masked_use, query[1].pkg) = {}

\* C5 amended: when every flag the profile's masked_use masks for the package
\* is also masked by its stable_masked_use, the stable ProfileData never reports
\* as enabled a flag that is masked under the unstable ProfileData.
C5_StableEnabledNotMaskedWhenStableAddsMasks ==
    (/\ query # <<>>
     /\ query[1].stable
     /\ pull_data(profile_obj.masked_use, query[1].pkg)
            \subseteq pull_data(profile_obj.stable_masked_use, query[1].pkg)) =>
        query[1].enabled
            \cap pull_data(pdata[1].unstable.masked_use, query[1].pkg) = {}

\* a stable call where the stable rules differ from the unstable ones, a known
\* forced flag is masked under unstable, and some flag stays enabled
C5_Witness ==
    /\ query # <<>>
    /\ query[1].stable
    /\ profile_obj.stable_masked_use # profile_obj.masked_use
    /\ pull_data(profile_obj.masked_use, query[1].pkg)
            \subseteq pull_data(profile_obj.stable_masked_use, query[1].pkg)
    /\ query[1].known_flags \cap QueryForced
            \cap pull_data(pdata[1].unstable.masked_use, query[1].pkg) # {}
    /\ query[1].enabled # {}

\* ------------------------------------------------------ update_cache claims
\* the passes of the last run over target_repo.trees
Passes == 1..(masters + 1)

\* the profile was compiled, or its compilation tried, in some pass of the run
Attempted(p) == \E i \in Passes : <<i, p>> \in run[1].attempts
Recompiled(p) == \E i \in Passes : <<i, p>> \in run[1].recompiled

\* before the run the cache file held an entry of p with the live fingerprint
FreshEntryBefore(p) ==
    LET e == run[1].diskBefore[ProfileBase(p)][p] IN
    e # <<>> /\ e[1].files = run[1].profile_data[p]

\* every ProfileData the run built for p is built from the compiled record c
BuiltFrom(p, c) ==
    \A k \in StabilityKeys :
        \A n \in DOMAIN run[1].profile_filters[k] :
            LET pd == run[1].profile_filters[k][n] IN
            pd.name = p =>
                \E repo \in Repos :
                    pd = IF k \in SelectedArches
                         THEN StableProfileData(p, ProfileArch(p), c,
                                                pkg_masks(repo))
                         ELSE UnstableProfileData(p, ProfileArch(p), c,
                                                  pkg_masks(repo))

\* C6: in update_cache(force=False) a profile with a persisted entry whose
\* fingerprint equals the live one is not recompiled and its stored fields are
\* used unchanged, for any list of repositories in trees.
C6_FreshEntryIsReused ==
    (run # <<>> /\ ~run[1].force) =>
        \A p \in Profiles :
            FreshEntryBefore(p) =>
                /\ ~Attempted(p)
                /\ BuiltFrom(p, run[1].diskBefore[ProfileBase(p)][p][1].compiled)

\* the single mtime change before the last run, when the cache file then held
\* an entry for every profile with the fingerprint of before the change
TouchedAfterPersist ==
    /\ run # <<>>
    /\ ~run[1].force
    /\ run[1].touchedBefore # <<>>
    /\ LET t == run[1].touchedBefore[1]
           before == profile_data([fs EXCEPT ![t.file] = t.old]).data
       IN \A p \in Profiles :
            LET e == run[1].diskBefore[ProfileBase(p)][p] IN
            e # <<>> /\ e[1].files = before[p]

TouchedFile == run[1].touchedBefore[1].file
InStack(f, p) == \E n \in DOMAIN ProfileStack(p) : ProfileStack(p)[n] = NodeOf(f)

C8_SavedIffRecompiled ==
    run # <<>> =>
        \A b \in Repos :
            /\ b \in run[1].saved <=>
                   \E p \in Profiles : ProfileBase(p) = b /\ Recompiled(p)
            /\ b \notin run[1].saved => disk[b] = run[1].diskBefore[b]

\* a run that served both profiles from the cache and wrote nothing
C8_Witness ==
    /\ run # <<>>
    /\ \A p \in Profiles : FreshEntryBefore(p) /\ ~Attempted(p)
    /\ run[1].profile_filters["amd64"] # <<>>
    /\ run[1].profile_filters["x86"] # <<>>
    /\ run[1].saved = {}

\* C9: update_cache(force=True) reads no cache file; every profile the compiler
\* accepts is recompiled in the call and its namespace is saved with the new
\* entry, even when a persisted entry with the same fingerprint existed.
C9_ForceRecompilesAll ==
    (run # <<>> /\ run[1].force) =>
        /\ run[1].reads = {}
        /\ \A p \in Profiles :
              compile_profile(ProfileSource(src[p]), ProfileArch(p)) # <<>> =>
                  /\ Recompiled(p)
                  /\ ProfileBase(p) \in run[1].saved
                  /\ disk[ProfileBase(p)][p] # <<>>
                  /\ disk[ProfileBase(p)][p][1].files = run[1].profile_data[p]

\* a forced run over a cache that already held fresh entries of both profiles
C9_Witness ==
    /\ run # <<>>
    /\ run[1].force
    /\ \A p \in Profiles : FreshEntryBefore(p) /\ Recompiled(p)

\* C10: with the directories unchanged, a profile's fingerprint is the same
\* whether it is computed on an empty node cache (a fresh run), was computed in
\* the run after the profiles before it, or is computed again on the node cache
\* the run has filled.
C10_FingerprintStable ==
    run # <<>> =>
        \A p \in Profiles :
            /\ run[1].profile_data[p] = profile_files(fs, EmptyNodeCache, p).value
            /\ profile_files(fs, profile_data(fs).cache, p).value
                   = run[1].profile_data[p]

\* a run in which the shared node n0 has mtime 0, so that it is listed again
\* for the second profile, while p1's own node is served from the node cache
C10_Witness ==
    /\ run # <<>>
    /\ fs["n0/a"] = 0
    /\ fs["n1/b"] > 0
    /\ Len(profile_data(fs).cache["n0"][1][2]) > 1

\* -------------------------------------------------------- fingerprint claims
\* the entries os.listdir gives for the directories of profile.stack
StackEntries(p) ==
    UNION { {ListDir(ProfileStack(p)[n])[k] :
                k \in DOMAIN ListDir(ProfileStack(p)[n])} :
            n \in DOMAIN ProfileStack(p) }

\* the largest mtime of a set of regular files, 0 for the empty set
NewestMtime(files) ==
    IF files = {} THEN 0
    ELSE CHOOSE m \in {fs[f] : f \in files} : \A f \in files : fs[f] <= m

\* C11: the fingerprint of every profile is (M, F), F being exactly the regular
\* files directly inside the directories of profile.stack (no symlink, no
\* sub-directory) and M the largest st_mtime over F, 0 when F is empty.
C11_FingerprintContents ==
    run # <<>> =>
        \A p \in Profiles :
            LET F == {e \in StackEntries(p) : S_ISREG(e)} IN
            /\ run[1].profile_data[p][2] = F
            /\ run[1].profile_data[p][1] = NewestMtime(F)

\* a run where p1's stack holds a symlink and a sub-directory next to regular
\* files older than them, and p3's stack holds no regular file at all
C11_Witness ==
    /\ run # <<>>
    /\ fs["n0/a"] = 1
    /\ fs["n1/b"] = 0
    /\ run[1].profile_data["p1"] = <<1, {"n0/a", "n1/b"}>>
    /\ StackEntries("p1") \ run[1].profile_data["p1"][2] = {"n0/sub", "n1/link"}
    /\ run[1].profile_data["p3"] = <<0, {}>>

\* ------------------------------------------------- identify_profiles claims
\* the keys identify_profiles goes through: the keywords, then '~k' for every
\* keyword k that does not start with '~'
ExpectedKeys(pkg) ==
    LET plain == SelectSeq(pkg.keywords, LAMBDA k : ~StartsWithTilde(k)) IN
    pkg.keywords \o [n \in 1..Len(plain) |-> "~" \o plain[n]]

\* the groups registered under a key
Registered(key) ==
    IF key \in StabilityKeys THEN run[1].profile_evaluate_dict[key] ELSE <<>>

\* slot <<i, g>>: the g-th group registered under the i-th key gone through
Slots(pkg) ==
    UNION { {<<i, g>> : g \in 1..Len(Registered(ExpectedKeys(pkg)[i]))} :
            i \in 1..Len(ExpectedKeys(pkg)) }

\* the members of a slot's group that are visible for pkg, in group order
VisibleMembers(pkg, sl) ==
    LET key == ExpectedKeys(pkg)[sl[1]] IN
    SelectSeq(Registered(key)[sl[2]],
              LAMBDA n : visible(run[1].profile_filters[key][n], pkg))

LiveSlots(pkg) == {sl \in Slots(pkg) : VisibleMembers(pkg, sl) # <<>>}

SlotBefore(a, b) == a[1] < b[1] \/ (a[1] = b[1] /\ a[2] <= b[2])

\* C12: identify_profiles(pkg) returns, for each key of pkg.keywords followed by
\* '~k' for each keyword k not starting with '~', in that order, and for each
\* group registered under that key in registration order, the sub-list of the
\* group's profiles visible for pkg when it is non-empty, and nothing else; so
\* every returned group is non-empty and holds only profiles visible for pkg.
C12_IdentifyProfilesList ==
    ident # <<>> =>
        LET pkg == ident[1].pkg
            groups == ident[1].groups
        IN /\ Len(groups) = Cardinality(LiveSlots(pkg))
           /\ \A sl \in LiveSlots(pkg) :
                 LET rank == Cardinality({t \in LiveSlots(pkg) : SlotBefore(t, sl)})
                 IN groups[rank] = [key |-> ExpectedKeys(pkg)[sl[1]],
                                    members |-> VisibleMembers(pkg, sl)]
           /\ \A n \in DOMAIN groups :
                 /\ groups[n].members # <<>>
                 /\ \A m \in DOMAIN groups[n].members :
                       visible(run[1].profile_filters[groups[n].key]
                                                     [groups[n].members[m]], pkg)

\* a package keyworded ~x86 and x86, so that the ~x86 groups are gone through
\* twice, asked of a single repo whose two x86 profiles share one group of
\* which the package is visible for the first member only
C12_Witness ==
    /\ ident # <<>>
    /\ masters = 0
    /\ ident[1].pkg.keywords = <<"~x86", "x86">>
    /\ run[1].profile_evaluate_dict["x86"] = << <<1, 2>> >>
    /\ ident[1].groups = <<[key |-> "~x86", members |-> <<1>>],
                           [key |-> "x86", members |-> <<1>>],
                           [key |-> "~x86", members |-> <<1>>]>>

\* the positions of profile_filters[key]
Positions(key) == DOMAIN run[1].profile_filters[key]

\* the groups of profile_evaluate_dict[key] that hold position n
GroupsHolding(key, n) ==
    {g \in DOMAIN Registered(key) :
        \E m \in DOMAIN Registered(key)[g] : Registered(key)[g][m] = n}

SameRules(a, b) == a.masked_use = b.masked_use /\ a.forced_use = b.forced_use

\* C13: after update_cache, for every stability key the groups of
\* profile_evaluate_dict[key] partition profile_filters[key] (every ProfileData
\* in exactly one group, once); two ProfileData share a group iff their
\* masked_use and forced_use are both equal; groups are ordered by their first
\* member's position and members keep their original order.
C13_GroupsAreStablePartition ==
    run # <<>> =>
        \A key \in StabilityKeys :
            LET pl == run[1].profile_filters[key]
                grps == Registered(key)
            IN /\ \A n \in Positions(key) : Cardinality(GroupsHolding(key, n)) = 1
               /\ \A g \in DOMAIN grps :
                     /\ grps[g] # <<>>
                     /\ \A m \in DOMAIN grps[g] : grps[g][m] \in Positions(key)
                     /\ \A m1, m2 \in DOMAIN grps[g] :
                           m1 < m2 => grps[g][m1] < grps[g][m2]
               /\ \A n1, n2 \in Positions(key) :
                     GroupsHolding(key, n1) = GroupsHolding(key, n2)
                         <=> SameRules(pl[n1], pl[n2])
               /\ \A g1, g2 \in DOMAIN grps :
                     g1 < g2 => grps[g1][1] < grps[g2][1]

\* a run whose x86 profiles, registered once per repo of trees, fall into two
\* groups that interleave: p2 and p3 differ in masked_use
C13_Witness ==
    /\ run # <<>>
    /\ masters = 1
    /\ Len(run[1].profile_filters["x86"]) = 4
    /\ run[1].profile_evaluate_dict["x86"] = << <<1, 3>>, <<2, 4>> >>
    /\ run[1].profile_evaluate_dict["~amd64"] = << <<1, 2>> >>

\* the ProfileData a returned group's member stands for
MemberPD(key, n) == run[1].profile_filters[key][n]

\* the ProfileData the call returned, as <<key, position>>
Returned ==
    UNION { {<<ident[1].groups[n].key, ident[1].groups[n].members[m]>> :
                m \in DOMAIN ident[1].groups[n].members} :
            n \in DOMAIN ident[1].groups }

InGroup(n, ref) ==
    /\ ident[1].groups[n].key = ref[1]
    /\ \E m \in DOMAIN ident[1].groups[n].members :
          ident[1].groups[n].members[m] = ref[2]

\* identify_use gives the same result for every member of every returned group
SameUseWithinGroups ==
    \A n \in DOMAIN ident[1].groups :
        \A m1, m2 \in DOMAIN ident[1].groups[n].members :
            \A pkg \in Packages, known_flags \in KnownFlagSets :
                identify_use(MemberPD(ident[1].groups[n].key,
                                      ident[1].groups[n].members[m1]),
                             pkg, known_flags)
                = identify_use(MemberPD(ident[1].groups[n].key,
                                        ident[1].groups[n].members[m2]),
                               pkg, known_flags)

\* C14 as stated: any two returned ProfileData with equal masked_use and
\* forced_use are in the same returned group, and identify_use gives the same
\* result for every member of one returned group.
C14_EqualRulesSameGroup ==
    ident # <<>> =>
        /\ \A a, b \in Returned :
              SameRules(MemberPD(a[1], a[2]), MemberPD(b[1], b[2])) =>
                  \E n \in DOMAIN ident[1].groups : InGroup(n, a) /\ InGroup(n, b)
        /\ SameUseWithinGroups

\* C14 amended: two ProfileData registered under the same stability key with
\* equal masked_use and forced_use, both visible for the package, are in the
\* same returned group (every returned group that holds one holds the other),
\* and identify_use gives the same result for every member of one returned
\* group, for any package and known_flags.
C14_EqualRulesSameGroupPerKey ==
    ident # <<>> =>
        /\ \A n \in DOMAIN ident[1].groups :
              LET key == ident[1].groups[n].key IN
              \A m \in DOMAIN ident[1].groups[n].members :
                  \A b \in Positions(key) :
                      (/\ SameRules(MemberPD(key, ident[1].groups[n].members[m]),
                                    MemberPD(key, b))
                       /\ visible(MemberPD(key, b), ident[1].pkg)) =>
                          InGroup(n, <<key, b>>)
        /\ SameUseWithinGroups

\* a single repo asked about a package visible for both x86 profiles, which
\* share their rule-sets: one group of two under x86, and the same two under
\* ~x86 in a group of its own
C14_Witness ==
    /\ ident # <<>>
    /\ masters = 0
    /\ ident[1].pkg.keywords = <<"x86">>
    /\ ident[1].groups = <<[key |-> "x86", members |-> <<1, 2>>],
                           [key |-> "~x86", members |-> <<1, 2>>]>>
    /\ SameRules(MemberPD("x86", 1), MemberPD("~x86", 1))

\* ------------------------------------------------------- visibility claims
\* the stable ProfileData at position n of profile_filters[a] and the unstable
\* one at position n of profile_filters['~a'] are the pair appended for one
\* profile in one pass
PairedPositions(a) ==
    {n \in Positions(a) :
        /\ n \in Positions(unstable_key(a))
        /\ run[1].built[a][n] = run[1].built[unstable_key(a)][n]}

\* C15: for every profile and package, a package that is not visible under the
\* profile's unstable ProfileData is not visible under its stable ProfileData
\* either (stable visibility implies unstable visibility), so the unstable
\* insoluble memo is right for stable and the stable cache memo for unstable.
C15_StableVisibleImpliesUnstableVisible ==
    run # <<>> =>
        \A a \in SelectedArches :
            /\ PairedPositions(a) = Positions(a)
            /\ PairedPositions(a) = Positions(unstable_key(a))
            /\ \A n \in PairedPositions(a) : \A pkg \in Pkgs :
                  ~visible(MemberPD(unstable_key(a), n), pkg)
                      => ~visible(MemberPD(a, n), pkg)

\* a single repo asked about a package keyworded x86 that the repo masks: it is
\* visible under neither ProfileData of p3, while a package keyworded ~x86 only
\* is visible under p3's unstable ProfileData and not under its stable one
C15_Witness ==
    /\ ident # <<>>
    /\ masters = 0
    /\ ident[1].pkg = [name |-> "Q", keywords |-> <<"x86">>]
    /\ run[1].built["x86"][2] = <<1, "p3">>
    /\ ~visible(MemberPD("~x86", 2), ident[1].pkg)
    /\ ~visible(MemberPD("x86", 2), ident[1].pkg)
    /\ visible(MemberPD("~x86", 2), [name |-> "P", keywords |-> <<"~x86">>])
    /\ ~visible(MemberPD("x86", 2), [name |-> "P", keywords |-> <<"~x86">>])

\* the mask filter of a ProfileData: the pkg_masks of the repo of the pass it
\* was built in plus the profile's masks, overridden by the profile's unmasks
MaskFilterAccepts(key, n, pkg) ==
    LET repo == Trees(masters)[run[1].built[key][n][1]]
        source == ProfileSource(src[run[1].built[key][n][2]])
    IN \/ pkg.name \notin (pkg_masks(repo) \cup source.masks)
       \/ pkg.name \in source.unmasks

HasKeyword(pkg, k) == \E m \in DOMAIN pkg.keywords : pkg.keywords[m] = k

\* C16: for every profile of architecture A and every package, the stable
\* ProfileData's visible(pkg) holds iff the mask filter accepts pkg and
\* pkg.keywords contains 'A'; the unstable ProfileData's visible(pkg) holds iff
\* the same mask filter accepts pkg and pkg.keywords contains 'A' or '~A'.
C16_VisibleIffMaskFilterAndKeyword ==
    run # <<>> =>
        \A a \in SelectedArches : \A pkg \in Pkgs :
            /\ \A n \in Positions(a) :
                  /\ ProfileArch(run[1].built[a][n][2]) = a
                  /\ visible(MemberPD(a, n), pkg)
                        <=> (MaskFilterAccepts(a, n, pkg) /\ HasKeyword(pkg, a))
            /\ \A n \in Positions(unstable_key(a)) :
                  /\ ProfileArch(run[1].built[unstable_key(a)][n][2]) = a
                  /\ visible(MemberPD(unstable_key(a), n), pkg)
                        <=> (/\ MaskFilterAccepts(unstable_key(a), n, pkg)
                             /\ (HasKeyword(pkg, a)
                                    \/ HasKeyword(pkg, "~" \o a)))

\* a single repo asked about the package the repo masks, keyworded ~x86: it is
\* visible under the unstable ProfileData of p2, which unmasks it, not under
\* p2's stable one, and not under the unstable one of p3, which has no unmask
C16_Witness ==
    /\ ident # <<>>
    /\ masters = 0
    /\ src["p2"] = "a"
    /\ ident[1].pkg = [name |-> "Q", keywords |-> <<"~x86">>]
    /\ run[1].built["~x86"] = << <<1, "p2">>, <<1, "p3">> >>
    /\ visible(MemberPD("~x86", 1), ident[1].pkg)
    /\ ~visible(MemberPD("x86", 1), ident[1].pkg)
    /\ ~visible(MemberPD("~x86", 2), ident[1].pkg)

\* ------------------------------------------------------------- memo claims
\* the last addition went through the given set of the given ProfileData
AddedThrough(set, stable) ==
    /\ memo_op # <<>>
    /\ memo_op[1].set = set
    /\ memo_op[1].stable = stable

\* C17: for the two ProfileData of one profile, a package added to the stable
\* one's cache is a member of the unstable one's cache, while an addition
\* through the unstable one's cache adds no member to the stable one's; a
\* package added to the unstable one's insoluble is a member of the stable
\* one's insoluble, while an addition through the stable one's insoluble adds
\* no member to the unstable one's.
C17_MemoSharingOneWay ==
    memo_op # <<>> =>
        LET p == memo_op[1].profile
            pkg == memo_op[1].pkg
            before == memo_op[1].before[p]
        IN /\ AddedThrough("cache", TRUE) =>
                 /\ pkg \in stable_cache_members(memo[p])
                 /\ pkg \in unstable_cache_members(memo[p])
           /\ AddedThrough("cache", FALSE) =>
                 /\ pkg \in unstable_cache_members(memo[p])
                 /\ stable_cache_members(memo[p]) = stable_cache_members(before)
           /\ AddedThrough("insoluble", FALSE) =>
                 /\ pkg \in unstable_insoluble_members(memo[p])
                 /\ pkg \in stable_insoluble_members(memo[p])
           /\ AddedThrough("insoluble", TRUE) =>
                 /\ pkg \in stable_insoluble_members(memo[p])
                 /\ unstable_insoluble_members(memo[p])
                        = unstable_insoluble_members(before)

\* P went into p1's stable cache after Q went in through the unstable one's:
\* the unstable cache has both, the stable one P only; and the same profile
\* has a package in the stable insoluble that the unstable one lacks
C17_Witness ==
    /\ AddedThrough("cache", TRUE)
    /\ memo_op[1].profile = "p1"
    /\ memo_op[1].pkg = "P"
    /\ stable_cache_members(memo["p1"]) = {"P"}
    /\ unstable_cache_members(memo["p1"]) = {"P", "Q"}
    /\ stable_insoluble_members(memo["p1"]) = {"Q"}
    /\ unstable_insoluble_members(memo["p1"]) = {}

\* ---------------------------------------------------- ProfileError claims
\* compiling p raised ProfileError in some pass of the run
Raised(p) == \E i \in Passes : <<i, p>> \in run[1].attempts \ run[1].recompiled

\* the run registered a ProfileData of p
HasProfileData(p) ==
    \E k \in StabilityKeys : \E n \in Positions(k) :
        run[1].profile_filters[k][n].name = p

\* C18: when compiling a profile raises ProfileError, update_cache goes on:
\* that profile gets no cache entry (its persisted entry, if any, is the one of
\* before or is gone), has no ProfileData in profile_filters and does not mark
\* its namespace for saving, while every other profile of the run is compiled
\* or loaded and has its ProfileData.
C18_ProfileErrorSkipsOnlyThatProfile ==
    run # <<>> =>
        \A p \in Profiles :
            Raised(p) =>
                /\ disk[ProfileBase(p)][p]
                       \in {<<>>, run[1].diskBefore[ProfileBase(p)][p]}
                /\ ~HasProfileData(p)
                /\ ProfileBase(p) \in run[1].saved =>
                       \E q \in Profiles \ {p} :
                           ProfileBase(q) = ProfileBase(p) /\ Recompiled(q)
                /\ \A q \in Profiles : ~Raised(q) => HasProfileData(q)

\* ------------------------------------------------------- __init__ claims
\* the profiles the user's --profiles value names as enabled
ExplicitlySelected ==
    IF profiles_arg = <<>> THEN {}
    ELSE UNION {norm_name(profiles_arg[1][n].name)[1] :
                  n \in {m \in DOMAIN profiles_arg[1] : ~profiles_arg[1][m].neg}}

\* the profiles __init__ tries to create
Considered ==
    {p \in namespace[1].profiles :
        ~(ProfileDeprecated(p) /\ (namespace[1].ignore_deprecated_profiles = <<>>
                                     \/ namespace[1].ignore_deprecated_profiles[1]))}

\* arch_profiles holds exactly the profiles of ps, by arch, in sorted order
Registers(ps) ==
    \A a \in KnownArches :
        paddon[1].arch_profiles[a]
            = SelectSeq(SortedProfiles, LAMBDA p : p \in ps /\ ProfileArch(p) = a)

\* C19: in ProfileAddon.__init__ a profile whose creation fails with
\* ProfileError aborts the run with PkgcheckUserException only if the user
\* explicitly selected that profile; a failing profile the user did not select
\* (also when --profiles names other or only disabled profiles) is skipped and
\* the remaining profiles are registered in arch_profiles.
C19_OnlySelectedFailureAborts ==
    paddon # <<>> =>
        /\ paddon[1].raised # <<>> =>
              /\ paddon[1].raised[1] \in Considered \cap broken
              /\ paddon[1].raised[1] \in ExplicitlySelected
        /\ (Considered \cap broken \cap ExplicitlySelected = {}) =>
              /\ paddon[1].raised = <<>>
              /\ Registers(Considered \ broken)

\* ------------------------------------------------------ init_addon claims
\* the positions of the events of one kind about a class
EventsOf(ev, cls) ==
    {n \in DOMAIN addons.events :
        addons.events[n].ev = ev /\ addons.events[n].cls = cls}

\* C20: for any acyclic required_addons graph and any sequence of init_addon
\* calls sharing one addons_map, each addon class is constructed at most once
\* and a later request returns that same instance; every required addon is
\* constructed before the addon requiring it; update_cache is called exactly
\* once on each CachedAddon instance (and on no other).
C20_InitOnceInDependencyOrder ==
    /\ \A cls \in AddonClasses :
          /\ Cardinality(EventsOf("construct", cls)) <= 1
          /\ \A n \in EventsOf("construct", cls) :
                /\ addons.map[cls] = addons.events[n].inst
                /\ \A d \in addon_cfg.required[cls] :
                      \E m \in EventsOf("construct", d) : m < n
                /\ Cardinality({m \in EventsOf("update_cache", cls) :
                                   addons.events[m].inst = addons.events[n].inst})
                      = IF cls \in addon_cfg.cached THEN 1 ELSE 0
          /\ \A m \in EventsOf("update_cache", cls) :
                \E n \in EventsOf("construct", cls) :
                    n < m /\ addons.events[n].inst = addons.events[m].inst
    /\ addons.last # <<>> =>
          LET call == addons.last[1] IN
          /\ call.before[call.cls] # 0 =>
                /\ call.result = <<call.before[call.cls]>>
                /\ Len(addons.events) = call.eventsBefore
          /\ call.result # <<>> => call.result[1] = addons.map[call.cls]

\* the diamond A -> B, C -> D with B and D cached: after init_addon(B), which
\* built D and B, init_addon(A) builds C and A only and returns the new A
C20_Witness ==
    /\ addon_cfg.required = [c \in AddonClasses |->
                                CASE c = "A" -> {"B", "C"}
                                  [] c = "B" -> {"D"}
                                  [] c = "C" -> {"D"}
                                  [] OTHER -> {}]
    /\ addon_cfg.cached = {"B", "D"}
    /\ addons.last # <<>>
    /\ addons.last[1].cls = "A"
    /\ addons.last[1].before = [EmptyAddonsMap EXCEPT !["D"] = 1, !["B"] = 2]
    /\ addons.last[1].result = <<4>>
    /\ Len(addons.events) = 6
    /\ addons.events[5].cls = "C"
    /\ addons.events[6].cls = "A"

\* C21: in every execution driven by init_addon, update_cache of a CachedAddon
\* instance (ProfileAddon) has completed before the instance is passed to the
\* constructor of an addon requiring it or returned to the caller: it is the
\* event right after the instance's construction, and every instance a call
\* returns has it in the log.
C21_CacheUpdatedBeforeUse ==
    /\ \A cls \in addon_cfg.cached :
          \A n \in EventsOf("construct", cls) :
              /\ n < Len(addons.events)
              /\ addons.events[n + 1] =
                     [ev |-> "update_cache", cls |-> cls,
                      inst |-> addons.events[n].inst]
              /\ \A user \in AddonClasses :
                    cls \in addon_cfg.required[user] =>
                        \A u \in EventsOf("construct", user) : n + 1 < u
    /\ addons.last # <<>> =>
          LET call == addons.last[1] IN
          (call.result # <<>> /\ call.cls \in addon_cfg.cached) =>
              \E m \in EventsOf("update_cache", call.cls) :
                  addons.events[m].inst = call.result[1]

\* A requires the cached D only: init_addon(A) constructs D, updates its
\* cache, and then constructs A; a second init_addon(D) returns that D
C21_Witness ==
    /\ addon_cfg.cached = {"D"}
    /\ addon_cfg.required["A"] = {"D"}
    /\ addons.calls = 2
    /\ addons.last[1].cls = "D"
    /\ addons.last[1].result = <<1>>
    /\ addons.events = << [ev |-> "construct", cls |-> "D", inst |-> 1],
                           [ev |-> "update_cache", cls |-> "D", inst |-> 1],
                           [ev |-> "construct", cls |-> "A", inst |-> 2] >>

\* ------------------------------------------------------ default profiles
\* no entry of the --profiles value enables a profile
NoProfileEnabled ==
    \/ profiles_arg = <<>>
    \/ \A n \in DOMAIN profiles_arg[1] : profiles_arg[1][n].neg

\* the profiles the '-' entries of the --profiles value stand for
ExplicitlyDisabled ==
    IF profiles_arg = <<>> THEN {}
    ELSE norm_names({profiles_arg[1][n].name : n \in DOMAIN profiles_arg[1]})

\* C22: whenever no profile is explicitly enabled (no --profiles option, or a
\* list of '-' entries only) and no selected arch requires experimental
\* profiles, options.profiles is the set of all profiles of the target repo
\* except the experimental ones and except the explicitly disabled ones.
C22_DefaultProfilesWithoutExp ==
    (namespace # <<>> /\ NoProfileEnabled /\ ~exp_profiles_required) =>
        namespace[1].profiles
            = (RepoProfiles \ get_profiles("exp")) \ ExplicitlyDisabled

\* ------------------------------------------------------- ArchesArgs claims
\* the names of the --arches value, with and without leading '-'
GivenArches == {arches_arg[1][n].name : n \in DOMAIN arches_arg[1]}
DisabledArches == {arches_arg[1][n].name :
                      n \in {m \in DOMAIN arches_arg[1] : arches_arg[1][m].neg}}
EnabledArches == GivenArches \ DisabledArches

\* C23: any arch name given to --arches that the target repo does not know
\* makes the parser fail with an 'unknown arch' error and leaves
\* namespace.arches unset; otherwise namespace.arches is (the enabled arches,
\* or all known arches without '-' in their name when none is enabled) minus
\* the disabled arches, every member of which is a known arch.  Stated for
\* values in which no name is both enabled and disabled.
C23_UnknownArchRejected ==
    (arches_ns # <<>> /\ arches_ns[1].error # "colliding values") =>
        IF GivenArches \ all_arches # {}
        THEN /\ arches_ns[1].error = "unknown arch"
             /\ arches_ns[1].arches = <<>>
        ELSE /\ arches_ns[1].error = ""
             /\ arches_ns[1].arches =
                   << (IF EnabledArches = {}
                       THEN {a \in all_arches : ~HasDash(a)}
                       ELSE EnabledArches) \ DisabledArches >>
             /\ arches_ns[1].arches[1] \subseteq all_arches

\* ------------------------------------------------------- arch flags claims
\* C24: for every profile freshly compiled for architecture A and every
\* package, A is in pull_data(pkg) of both enabled_flags and
\* stable_enabled_flags, and every known arch other than A is in
\* pull_data(pkg) of both immutable_flags and stable_immutable_flags.
C24_ArchForcedOthersMasked ==
    pdata # <<>> =>
        \A pkg \in Packages :
            /\ arch \in pull_data(pdata[1].unstable.forced_use, pkg)
            /\ arch \in pull_data(pdata[1].stable.forced_use, pkg)
            /\ (KnownArches \ {arch})
                  \subseteq pull_data(pdata[1].unstable.masked_use, pkg)
            /\ (KnownArches \ {arch})
                  \subseteq pull_data(pdata[1].stable.masked_use, pkg)

\* a profile compiled for amd64 whose package.use.stable.force negates amd64
\* for package P and whose package.use.mask names P
C24_Witness ==
    /\ pdata # <<>>
    /\ arch = "amd64"
    /\ profile_obj.stable_forced_use = <<mk_item("P", {"amd64"}, {})>>
    /\ profile_obj.masked_use = <<mk_item("P", {"bar"}, {"baz"})>>
    /\ pull_data(pdata[1].stable.forced_use, "P") = {"amd64"}
    /\ pull_data(pdata[1].unstable.masked_use, "P") = {"baz", "x86", "arm64"}

\* ----------------------------------------------------- metadata.xml claims
\* how often a result is in the yielded sequence
Yielded(results, set) == {n \in DOMAIN results : results[n] \in set}

\* C25: _parse_xml is staged: an unreadable file yields only the missing-file
\* result (and only when options.gentoo_repo is set) and stops; a syntax error
\* yields only the badly-formed result and stops; a schema violation yields
\* only the invalid-XML result and stops; the content checks run only when the
\* file was parsed and passed schema validation, so at most one of missing /
\* badly-formed / invalid is reported per file and never together with a
\* content-check result.
C25_ParseXmlStaged ==
    xml_out # <<>> =>
        LET file == xml_in[1].file
            results == xml_out[1]
            schema == init_schema(xml_in[1].xsd)[1]
        IN /\ ~file.readable =>
                 results = IF xml_in[1].gentoo_repo THEN <<"missing_error">>
                           ELSE <<>>
           /\ (file.readable /\ ~file.well_formed) =>
                 results = <<"misformed_error">>
           /\ (file.readable /\ file.well_formed /\ schema \in file.violates) =>
                 results = <<"invalid_error">>
           /\ Yielded(results, ContentResults) # {} =>
                 /\ file.readable /\ file.well_formed
                 /\ schema \notin file.violates
           /\ Cardinality(Yielded(results, StageResults)) <= 1
           /\ Yielded(results, StageResults) # {} =>
                 Yielded(results, ContentResults) = {}

\* a well-formed file that violates the repo's schema and has content the
\* checks would report: only the invalid result is yielded
C25_Witness ==
    /\ xml_out = << <<"invalid_error">> >>
    /\ xml_in[1].xsd = "schema"
    /\ xml_in[1].file.violates = {"repo"}
    /\ xml_in[1].file.findings = ContentResults

\* ------------------------------------------------------ init_checks claims
\* the places of enabled that hold the instance of a class
EnabledAt(cls) ==
    {kn \in EnabledKeys \X (1..Cardinality(AddonClasses)) :
        /\ kn[2] \in DOMAIN checks_run[1].enabled[kn[1]]
        /\ checks_run[1].enabled[kn[1]][kn[2]].cls = cls}

\* the rounds of the loop so far, and the class names of the checks returned
Rounds == checks_run[1].outcomes
Returned_checks ==
    {Rounds[n].cls : n \in {m \in DOMAIN Rounds :
                               Rounds[m].raised = ""
                               /\ Rounds[m].cls \in CheckClasses}}

\* C26: init_checks passes over an addon whose initialization raises
\* SkipOptionalCheck when its class name is not among the selected checks (it
\* is absent from enabled and the remaining addons are still initialized) and
\* lets the exception propagate when it is; every successfully initialized
\* Check is exactly once in enabled, under its scope and its (source,
\* is_async) key, with one shared source object per distinct addon.source.
C26_InitChecksSkipsAndRegisters ==
    checks_run # <<>> =>
        LET lcl == checks_run[1]
            attrs == checks_cfg[1].attrs
        IN /\ \A n \in DOMAIN Rounds :
                 Rounds[n].raised = "SkipOptionalCheck" =>
                     /\ EnabledAt(Rounds[n].cls) = {}
                     /\ IF Rounds[n].cls \in checks_cfg[1].selected_checks
                        THEN lcl.raised = "SkipOptionalCheck" /\ n = Len(Rounds)
                        ELSE n < Len(Rounds) \/ lcl.raised = ""
           /\ \A cls \in AddonClasses :
                 IF cls \in Returned_checks
                 THEN /\ Cardinality(EnabledAt(cls)) = 1
                      /\ \A kn \in EnabledAt(cls) :
                            /\ kn[1] = <<attrs[cls].scope,
                                         lcl.source_map[attrs[cls].source],
                                         attrs[cls].is_async>>
                            /\ lcl.enabled[kn[1]][kn[2]].inst = addons.map[cls]
                 ELSE EnabledAt(cls) = {}
           /\ \A c1 \in Returned_checks, c2 \in Returned_checks :
                 (attrs[c1].source = attrs[c2].source)
                     <=> (\A k1 \in EnabledAt(c1), k2 \in EnabledAt(c2) :
                              k1[1][2] = k2[1][2])

\* B, not selected, raises SkipOptionalCheck and is passed over; A and the
\* addon C it requires are initialized afterwards and A is registered
C26_Witness ==
    /\ checks_run # <<>>
    /\ addon_cfg.raising = {"B"}
    /\ checks_cfg[1].selected_checks = {}
    /\ Len(Rounds) = 2
    /\ Rounds[1].cls = "B"
    /\ Rounds[1].raised = "SkipOptionalCheck"
    /\ Rounds[2].cls = "A"
    /\ addon_cfg.required["A"] = {"C"}
    /\ checks_run[1].raised = ""
    /\ checks_run[1].enabled[<<"version", 1, FALSE>>]
          = << [cls |-> "A", inst |-> 2] >>

\* --------------------------------------------------- profile_filters claims
\* the names of the ProfileData of a key, in list order
NamesOf(k) ==
    [n \in Positions(k) |-> run[1].profile_filters[k][n].name]

\* the profile was compiled or loaded in some pass of the run
CompiledOrLoaded(p) ==
    \E k \in StabilityKeys : \E n \in DOMAIN run[1].built[k] :
        run[1].built[k][n][2] = p

\* C27: after one update_cache call, for each selected arch A and each profile
\* of A that was compiled or loaded successfully, profile_filters[A] and
\* profile_filters[~A] each contain exactly one ProfileData for that profile,
\* for any number of repositories in target_repo.trees; the two lists have
\* the same length and the same profile names in the same order.
C27_OneProfileDataPerProfile ==
    run # <<>> =>
        \A a \in SelectedArches :
            /\ NamesOf(a) = NamesOf(unstable_key(a))
            /\ \A p \in Profiles :
                  (ProfileArch(p) = a /\ CompiledOrLoaded(p)) =>
                      \A k \in {a, unstable_key(a)} :
                          Cardinality({n \in Positions(k) : NamesOf(k)[n] = p}) = 1

\* ----------------------------------------------- _flatten_restricts claims
\* the pairs the claim asks for: every plain node, in document order, with the
\* restrictions of the Conditional nodes enclosing it, outermost first
RECURSIVE EnclosingRestricts(_, _)
EnclosingRestricts(nodes, enclosing) ==
    IF nodes = <<>> THEN <<>>
    ELSE LET node == Head(nodes) IN
         (IF node.kind = "cond"
          THEN EnclosingRestricts(node.payload,
                                  Append(enclosing, node.restriction))
          ELSE << [k |-> node, v |-> enclosing] >>)
         \o EnclosingRestricts(Tail(nodes), enclosing)

\* C28: _flatten_restricts pairs every yielded non-Conditional node with
\* exactly the tuple of restrictions of the Conditional nodes that enclose it,
\* outermost first: a node outside every Conditional gets the empty tuple, and
\* a node that follows a nested Conditional at the same level does not get
\* that sibling Conditional's restriction.
C28_PairedWithEnclosingRestricts ==
    flat_out # <<>> =>
        flat_out[1].yielded = EnclosingRestricts(flat_in[1].nodes, <<>>)

\* ---------------------------------------------------- returned group claims
\* C29: for every package, whatever its keywords tuple (including one listing
\* both 'A' and '~A'), identify_profiles returns no ProfileData object in more
\* than one group and no group more than once.
C29_NoProfileDataReturnedTwice ==
    ident # <<>> =>
        \A n1, n2 \in DOMAIN ident[1].groups :
            n1 # n2 =>
                /\ ident[1].groups[n1] # ident[1].groups[n2]
                /\ \A ref \in Returned : ~(InGroup(n1, ref) /\ InGroup(n2, ref))

\* ---------------------------------------------------- memo isolation claims
\* what the four memo sets of a pair show, given the content of global_insoluble
MembersSeen(m, global) ==
    [stable_cache |-> m.stable_cache,
     unstable_cache |-> ProtectedSet_members(m.stable_cache, m.unstable_cache_new),
     unstable_insoluble |-> ProtectedSet_members(global, m.unstable_insoluble_new),
     stable_insoluble |->
         ProtectedSet_members(ProtectedSet_members(global, m.unstable_insoluble_new),
                              m.stable_insoluble_new)]

\* C30: after any sequence of additions made through the cache or insoluble
\* sets of any ProfileData, ProfileAddon.global_insoluble is unchanged, and
\* the membership observed through the cache and insoluble sets of a
\* ProfileData of a different profile is unchanged.
C30_MemoIsolation ==
    /\ global_insoluble = {}
    /\ memo_op # <<>> =>
          /\ global_insoluble = memo_op[1].global_before
          /\ \A q \in Profiles \ {memo_op[1].profile} :
                MembersSeen(memo[q], global_insoluble)
                    = MembersSeen(memo_op[1].before[q], memo_op[1].global_before)

\* Q was added through the unstable insoluble of p1 after P went into p2's
\* sets: p2 still shows P only
C30_Witness ==
    /\ AddedThrough("insoluble", FALSE)
    /\ memo_op[1].profile = "p1"
    /\ memo_op[1].pkg = "Q"
    /\ MembersSeen(memo["p1"], global_insoluble).stable_insoluble = {"Q"}
    /\ MembersSeen(memo["p2"], global_insoluble).stable_insoluble = {"P"}
    /\ MembersSeen(memo["p2"], global_insoluble).unstable_cache = {"P"}

====
